---- MODULE Spec2Model ----
(***************************************************************************)
(* A model of the PigeonMC server core: the framed byte buffer, the packet *)
(* registry, the per-connection I/O engine (phase machine, frame loop,     *)
(* serialized writer) and the player registry.                             *)
(*                                                                         *)
(* Integers are kept in the range of a signed 32-bit value; a u32 with the *)
(* top bit set is carried as the i32 with the same bit pattern, and an i64 *)
(* as four 16-bit limbs (most significant first).                          *)
(***************************************************************************)
EXTENDS Integers, Sequences, FiniteSets, TLC

VARIABLES
    conn,     \* the Connection object's fields
    sock,     \* the socket and its outstanding asynchronous operations
    pool,     \* the tasks this connection has submitted to g_thread_pool
    now,      \* steady_clock, in ticks of TickMs milliseconds
    build,    \* which definition of Connection::handle_status_packet is built
    hist,     \* history: what was dispatched and pushed (read by the properties only)
    thr,      \* where each thread stands inside the call it is running
    players,  \* PlayerManager and the connections logging in to it
    chunks,   \* ChunkManager: loaded_chunks_, pending_chunks_ and the Chunk objects
    disk,     \* WorldPersistence: the region file and its header
    workers,  \* ThreadPool: each worker's queue, shutdown flag and thread
    view      \* a Player's location, view distance and loaded_chunks_

vars == <<conn, sock, pool, now, build, hist, thr, players, chunks, disk, workers, view>>

----------------------------------------------------------------------------
(* core/buffer.hpp : Buffer                                                *)

Min(a, b) == IF a < b THEN a ELSE b

Zeros(n) == [i \in 1..n |-> 0]

\* (u32)v >> 7, for v an i32 bit pattern or a non-negative remainder.
Shr7(v) == (v \div 128) % 33554432

Low7(v) == v % 128

\* Buffer::write_varint: the bytes appended for an i32 value.
RECURSIVE write_varint(_)
write_varint(value) ==
    IF Shr7(value) # 0
    THEN <<Low7(value) + 128>> \o write_varint(Shr7(value))
    ELSE <<Low7(value)>>

\* Connection::get_varint_size
RECURSIVE get_varint_size(_)
get_varint_size(value) ==
    IF Shr7(value) # 0 THEN 1 + get_varint_size(Shr7(value)) ELSE 1

\* result |= (b & 0x7F) << shift with the fifth byte's bits left out.
OrShl_low28(result, d, shift) ==
    IF shift < 28 THEN result + d * (2 ^ shift) ELSE result

\* result |= (b & 0x7F) << shift, on 32 bits (the bits shifted past bit 31
\* are lost, bit 31 is the sign).
OrShl(result, d, shift) ==
    IF shift < 28
    THEN result + d * (2 ^ shift)
    ELSE LET low == result + (d % 8) * 268435456
         IN  IF (d \div 8) % 2 = 1
             THEN (low - 1073741824) - 1073741824
             ELSE low

Thrown(what, pos) == [ok |-> FALSE, err |-> what, val |-> 0, pos |-> pos]

Got(val, pos) == [ok |-> TRUE, err |-> "", val |-> val, pos |-> pos]

\* Buffer::read_byte at read_pos_ = pos (0-based) of a buffer holding `data`.
read_byte(data, pos) ==
    IF pos >= Len(data)
    THEN Thrown("Buffer underflow", pos)
    ELSE Got(data[pos + 1], pos + 1)

\* Buffer::read_varint: the do-while loop, one byte per level.
RECURSIVE read_varint_loop(_, _, _, _)
read_varint_loop(data, pos, shift, result) ==
    IF shift >= 32
    THEN Thrown("VarInt too big", pos)
    ELSE LET b == read_byte(data, pos)
         IN  IF ~b.ok
             THEN b
             ELSE LET r == OrShl(result, b.val % 128, shift)
                  IN  IF b.val >= 128
                      THEN read_varint_loop(data, b.pos, shift + 7, r)
                      ELSE Got(r, b.pos)

read_varint(data, pos) == read_varint_loop(data, pos, 0, 0)

\* Buffer::read: copies min(len, available) bytes and never throws.
read(data, pos, len) ==
    LET to_read == Min(len, Len(data) - pos)
    IN  Got(SubSeq(data, pos + 1, pos + to_read), pos + to_read)

\* Buffer::read_string: the result has `length` bytes, those not available
\* stay '\0'.
read_string(data, pos) ==
    LET length == read_varint(data, pos)
    IN  IF ~length.ok
        THEN length
        ELSE IF length.val < 0 \/ length.val > 32767
        THEN Thrown("Invalid string length", length.pos)
        ELSE LET r == read(data, length.pos, length.val)
             IN  Got(r.val \o Zeros(length.val - Len(r.val)), r.pos)

\* Buffer::write_string
write_string(str) == write_varint(Len(str)) \o str

\* Buffer::read_be<u16>
read_be16(data, pos) ==
    LET hi == read_byte(data, pos)
    IN  IF ~hi.ok
        THEN hi
        ELSE LET lo == read_byte(data, hi.pos)
             IN  IF ~lo.ok THEN lo ELSE Got(hi.val * 256 + lo.val, lo.pos)

\* Buffer::write_be<u16>
write_be16(value) == <<(value \div 256) % 256, value % 256>>

\* Buffer::read_be<i64>: eight read_byte calls; the value as four limbs.
RECURSIVE read_be64_loop(_, _, _, _)
read_be64_loop(data, pos, i, limbs) ==
    IF i = 4
    THEN Got(limbs, pos)
    ELSE LET l == read_be16(data, pos)
         IN  IF ~l.ok THEN l ELSE read_be64_loop(data, l.pos, i + 1, Append(limbs, l.val))

read_be64(data, pos) == read_be64_loop(data, pos, 0, <<>>)

\* Buffer::write_be<i64>
write_be64(limbs) ==
    write_be16(limbs[1]) \o write_be16(limbs[2]) \o write_be16(limbs[3]) \o write_be16(limbs[4])

----------------------------------------------------------------------------
(* network/packet_types.hpp : packets and the packet registry              *)

HANDSHAKING == 0
STATUS == 1
LOGIN == 2
PLAY == 3

MINECRAFT_PROTOCOL_VERSION == 763

CLIENTBOUND == "CLIENTBOUND"
SERVERBOUND == "SERVERBOUND"

\* The classes PacketManager::PacketManager registers, in its order.
RegisteredClasses ==
    << "Handshake", "StatusRequest", "StatusResponse", "PingRequest", "PingResponse",
       "LoginStart", "LoginSuccess", "KeepAlive", "JoinGame", "PlayerPosition" >>

NoFields == [none |-> 0]

\* A default-constructed packet of a class (KeepAlivePacket() sets
\* direction_ to CLIENTBOUND).
DefaultPacket(kind) ==
    [kind |-> kind,
     direction_ |-> IF kind = "KeepAlive" THEN CLIENTBOUND ELSE "",
     f |-> NoFields]

\* Packet::get_state
get_state(p) ==
    CASE p.kind = "Handshake" -> HANDSHAKING
      [] p.kind \in {"StatusRequest", "StatusResponse", "PingRequest", "PingResponse"} -> STATUS
      [] p.kind \in {"LoginStart", "LoginSuccess"} -> LOGIN
      [] OTHER -> PLAY

\* Packet::get_direction
get_direction(p) ==
    CASE p.kind \in {"Handshake", "StatusRequest", "PingRequest", "LoginStart", "PlayerPosition"}
           -> SERVERBOUND
      [] p.kind = "KeepAlive" -> p.direction_
      [] OTHER -> CLIENTBOUND

\* Packet::get_id
get_id(p) ==
    CASE p.kind \in {"Handshake", "StatusRequest", "StatusResponse", "LoginStart"} -> 0
      [] p.kind \in {"PingRequest", "PingResponse"} -> 1
      [] p.kind = "LoginSuccess" -> 2
      [] p.kind = "KeepAlive" -> (IF p.direction_ = CLIENTBOUND THEN 33 ELSE 18)
      [] p.kind = "JoinGame" -> 38
      [] p.kind = "PlayerPosition" -> 20

\* PacketManager::register_packet<T>: the factory is stored under the state,
\* direction and id of a default-constructed sample.
register_packet(registries, kind) ==
    LET sample == DefaultPacket(kind)
        key == <<get_state(sample), get_direction(sample), get_id(sample)>>
    IN  [k \in (DOMAIN registries) \cup {key} |->
            IF k = key THEN kind ELSE registries[k]]

RECURSIVE RegisterAll(_, _)
RegisterAll(registries, i) ==
    IF i > Len(RegisteredClasses)
    THEN registries
    ELSE RegisterAll(register_packet(registries, RegisteredClasses[i]), i + 1)

\* g_packet_manager.registries_ after PacketManager::PacketManager.
registries_ == RegisterAll([k \in {} |-> ""], 1)

NoPacket == [kind |-> "null", direction_ |-> "", f |-> NoFields]

\* PacketManager::create_packet
create_packet(state, direction, packet_id) ==
    IF <<state, direction, packet_id>> \in DOMAIN registries_
    THEN DefaultPacket(registries_[<<state, direction, packet_id>>])
    ELSE NoPacket

With(p, fields) == [p EXCEPT !.f = fields]

\* HandshakePacket::read
HandshakePacket_read(p, data, pos) ==
    LET pv == read_varint(data, pos)
    IN  IF ~pv.ok THEN pv ELSE
        LET addr == read_string(data, pv.pos)
        IN  IF ~addr.ok THEN addr ELSE
            LET port == read_be16(data, addr.pos)
            IN  IF ~port.ok THEN port ELSE
                LET ns == read_varint(data, port.pos)
                IN  IF ~ns.ok THEN ns ELSE
                    Got(With(p, [protocol_version |-> pv.val, server_address |-> addr.val,
                                 server_port |-> port.val, next_state |-> ns.val]), ns.pos)

\* PingRequestPacket::read
PingRequestPacket_read(p, data, pos) ==
    LET v == read_be64(data, pos)
    IN  IF ~v.ok THEN v ELSE Got(With(p, [payload |-> v.val]), v.pos)

\* LoginStartPacket::read: the uuid bytes that are not there stay as the
\* value-initialised array left them.
LoginStartPacket_read(p, data, pos) ==
    LET name == read_string(data, pos)
    IN  IF ~name.ok THEN name ELSE
        LET id == read(data, name.pos, 16)
        IN  Got(With(p, [username |-> name.val,
                         player_uuid |-> id.val \o Zeros(16 - Len(id.val))]), id.pos)

\* KeepAlivePacket::read
KeepAlivePacket_read(p, data, pos) ==
    LET v == read_be64(data, pos)
    IN  IF ~v.ok THEN v ELSE Got(With(p, [keep_alive_id |-> v.val]), v.pos)

\* PlayerPositionPacket::read: three f64 bit patterns and a bool.
PlayerPositionPacket_read(p, data, pos) ==
    LET x == read_be64(data, pos)
    IN  IF ~x.ok THEN x ELSE
        LET y == read_be64(data, x.pos)
        IN  IF ~y.ok THEN y ELSE
            LET z == read_be64(data, y.pos)
            IN  IF ~z.ok THEN z ELSE
                LET g == read_byte(data, z.pos)
                IN  IF ~g.ok THEN g ELSE
                    Got(With(p, [x |-> x.val, y |-> y.val, z |-> z.val,
                                 on_ground |-> g.val # 0]), g.pos)

\* packet->read(buffer), by the packet's class. The serverbound tables only
\* hold the classes below.
Packet_read(p, data, pos) ==
    CASE p.kind = "Handshake" -> HandshakePacket_read(p, data, pos)
      [] p.kind = "PingRequest" -> PingRequestPacket_read(p, data, pos)
      [] p.kind = "LoginStart" -> LoginStartPacket_read(p, data, pos)
      [] p.kind = "KeepAlive" -> KeepAlivePacket_read(p, data, pos)
      [] p.kind = "PlayerPosition" -> PlayerPositionPacket_read(p, data, pos)
      [] OTHER -> Got(p, pos)

\* Buffer::write_be<i32>, for a non-negative value
write_be32(value) == write_be16(value \div 65536) \o write_be16(value % 65536)

\* "minecraft:overworld"
Overworld ==
    <<109, 105, 110, 101, 99, 114, 97, 102, 116, 58, 111, 118, 101, 114, 119, 111, 114, 108, 100>>

\* The status JSON text stands for itself as a two-byte token.
StatusJson == <<123, 125>>

\* packet->write(tmp): the body bytes of the clientbound packets.
Packet_write(p) ==
    CASE p.kind = "StatusResponse" -> write_string(p.f.json_response)
      [] p.kind = "PingResponse" -> write_be64(p.f.payload)
      [] p.kind = "LoginSuccess" ->
            p.f.player_uuid \o write_string(p.f.username) \o write_varint(0)
      [] p.kind = "KeepAlive" -> write_be64(p.f.keep_alive_id)
      [] p.kind = "JoinGame" ->
            write_be32(p.f.entity_id) \o <<0, 0, 0>>
            \o write_varint(1) \o write_string(Overworld)
            \o write_string(Overworld) \o write_string(Overworld)
            \o write_be64(p.f.hashed_seed)
            \o write_varint(20) \o write_varint(10) \o write_varint(10)
            \o <<0, 1, 0, 0, 0>>
      [] OTHER -> <<>>

StatusResponsePacket(json) ==
    [kind |-> "StatusResponse", direction_ |-> "", f |-> [json_response |-> json]]

PingResponsePacket(payload) ==
    [kind |-> "PingResponse", direction_ |-> "", f |-> [payload |-> payload]]

LoginSuccessPacket(uuid, name) ==
    [kind |-> "LoginSuccess", direction_ |-> "", f |-> [player_uuid |-> uuid, username |-> name]]

KeepAlivePacket(id, dir) ==
    [kind |-> "KeepAlive", direction_ |-> dir, f |-> [keep_alive_id |-> id]]

JoinGamePacket(entity_id, seed) ==
    [kind |-> "JoinGame", direction_ |-> "", f |-> [entity_id |-> entity_id, hashed_seed |-> seed]]

----------------------------------------------------------------------------
(* network/connection.hpp : Connection. The operators below take and give  *)
(* a record w = [conn, sock, pool, hist]; each is one call, run to its end.*)

\* A write operation the socket has been given: the bytes, how many went
\* out, whether it has completed and with what error code.
Aborted(op) == IF op.done THEN op ELSE [op EXCEPT !.done = TRUE, !.ec = TRUE]

\* socket_.close: every outstanding operation is cancelled. A write not yet
\* complete ends with operation_aborted; the cancelled read's handler only
\* calls close() again.
socket_close(w) ==
    [w EXCEPT !.sock.open = FALSE,
              !.sock.read_pending = FALSE,
              !.sock.ops = [i \in 1..Len(@) |-> Aborted(@[i])]]

\* Connection::close
close(w) ==
    IF w.conn.closed_
    THEN w
    ELSE socket_close([w EXCEPT !.conn.closed_ = TRUE])

\* asio::async_write as start_write calls it: on a closed socket the
\* operation fails at once; on an open one the bytes go out during the call
\* when the reactor sends speculatively (sock.eager), else later.
async_write(w, buf) ==
    LET sent == IF w.sock.open /\ w.sock.eager THEN Len(buf) ELSE 0
    IN  [w EXCEPT !.sock.ops = Append(@, [buf |-> buf, sent |-> sent,
                                          done |-> (~w.sock.open) \/ w.sock.eager,
                                          ec |-> ~w.sock.open]),
                  !.sock.wire_out = @ \o SubSeq(buf, 1, sent),
                  !.hist.handed = Append(@, buf)]

\* A start_write that does not look at writing_.
exchange_unguarded(writing) == FALSE

\* if (writing_.exchange(true)) return;
exchange_returns(writing) == writing

\* Connection::start_write
start_write(w) ==
    IF exchange_returns(w.conn.writing_)
    THEN w
    ELSE IF w.conn.write_queue_ = <<>>
    THEN [w EXCEPT !.conn.writing_ = FALSE]
    ELSE async_write([w EXCEPT !.conn.writing_ = TRUE], Head(w.conn.write_queue_))

\* The frame send_packet builds for a packet.
Frame(p) ==
    LET tmp == Packet_write(p)
    IN  write_varint(Len(tmp) + get_varint_size(get_id(p)))
        \o write_varint(get_id(p)) \o tmp

\* write_queue_.push(std::move(fin)) under write_mutex_
push(w, p) ==
    [w EXCEPT !.conn.write_queue_ = Append(@, Frame(p)),
              !.hist.pushed = Append(@, [kind |-> p.kind, frame |-> Frame(p)])]

\* Connection::send_packet
send_packet(w, p) ==
    IF w.conn.closed_
    THEN w
    ELSE start_write(push(w, p))

\* A handle_write that leaves the written frame at the front.
pop_nothing(write_queue_) == write_queue_

\* if (!write_queue_.empty()) write_queue_.pop(), under write_mutex_
pop(write_queue_) == IF write_queue_ = <<>> THEN write_queue_ ELSE Tail(write_queue_)

\* Connection::handle_write, called with the operation's error code.
handle_write(w, ec) ==
    LET popped == [w EXCEPT !.conn.write_queue_ = pop(@)]
    IN  IF ec
        THEN close(popped)
        ELSE start_write([popped EXCEPT !.conn.writing_ = FALSE])

\* g_thread_pool.submit of a task of this connection.
submit(w, task) == [w EXCEPT !.pool = @ \cup {[name |-> task, wake |-> 0]}]

\* Connection::handle_handshake_packet
handle_handshake_packet(w, p) ==
    IF p.kind = "Handshake"
    THEN IF p.f.protocol_version # MINECRAFT_PROTOCOL_VERSION
         THEN close(w)
         ELSE [w EXCEPT !.conn.state_ = p.f.next_state]
    ELSE w

\* Connection::handle_status_packet, as network/connection.hpp defines it
handle_status_packet(w, p) ==
    IF p.kind = "StatusRequest"
    THEN send_packet(w, StatusResponsePacket(StatusJson))
    ELSE IF p.kind = "PingRequest"
    THEN close(send_packet([w EXCEPT !.hist.pings = IF w.conn.closed_ THEN @ ELSE @ \cup {p.f.payload}],
                           PingResponsePacket(p.f.payload)))
    ELSE w

\* Connection::handle_status_packet, as fixes_and_integration.hpp defines
\* it: close() is left to a pool task that first sleeps 100 ms.
handle_status_packet_fixes(w, p) ==
    IF p.kind = "StatusRequest"
    THEN send_packet(w, StatusResponsePacket(StatusJson))
    ELSE IF p.kind = "PingRequest"
    THEN submit(send_packet([w EXCEPT !.hist.pings = IF w.conn.closed_ THEN @ ELSE @ \cup {p.f.payload}],
                            PingResponsePacket(p.f.payload)),
                "close")
    ELSE w

\* Connection::handle_login_packet
handle_login_packet(w, p) ==
    IF p.kind = "LoginStart"
    THEN LET named == [w EXCEPT !.conn.profile_ =
                           [username |-> p.f.username, uuid |-> p.f.player_uuid]]
             sent == send_packet(named,
                         LoginSuccessPacket(named.conn.profile_.uuid,
                                            named.conn.profile_.username))
         IN  submit([sent EXCEPT !.conn.state_ = PLAY], "initialize_play_state")
    ELSE w

\* Connection::handle_play_packet
handle_play_packet(w, p, t) ==
    IF p.kind = "KeepAlive"
    THEN [w EXCEPT !.conn.last_keep_alive_ = t]
    ELSE IF p.kind = "PlayerPosition"
    THEN [w EXCEPT !.conn.location_ = <<p.f.x, p.f.y, p.f.z>>]
    ELSE w

\* Connection::handle_packet: a state_ outside the four phases matches no
\* case of the switch.
handle_packet(w, p, t, variant) ==
    CASE w.conn.state_ = HANDSHAKING -> handle_handshake_packet(w, p)
      [] w.conn.state_ = STATUS ->
            (IF variant = "fixes_and_integration.hpp"
             THEN handle_status_packet_fixes(w, p)
             ELSE handle_status_packet(w, p))
      [] w.conn.state_ = LOGIN -> handle_login_packet(w, p)
      [] w.conn.state_ = PLAY -> handle_play_packet(w, p, t)
      [] OTHER -> w

\* Connection::process_packet on the buffer handle_read built. The result
\* says whether an exception left the call.
process_packet(w, packet_buffer, t, variant) ==
    LET packet_id == read_varint(packet_buffer, 0)
    IN  IF ~packet_id.ok
        THEN [thrown |-> TRUE, w |-> w]
        ELSE
        LET packet == create_packet(w.conn.state_, SERVERBOUND, packet_id.val)
            seen == [w EXCEPT !.hist.last =
                        [state |-> w.conn.state_, id |-> packet_id.val,
                         len |-> Len(packet_buffer), kind |-> packet.kind,
                         read |-> w.hist.reads]]
        IN  IF packet = NoPacket
            THEN [thrown |-> FALSE, w |-> seen]
            ELSE
            LET rd == Packet_read(packet, packet_buffer, packet_id.pos)
            IN  IF ~rd.ok
                THEN [thrown |-> TRUE, w |-> w]
                ELSE [thrown |-> FALSE, w |-> handle_packet(seen, rd.val, t, variant)]

\* Connection::start_read
start_read(w) ==
    IF w.conn.closed_ THEN w ELSE [w EXCEPT !.sock.read_pending = TRUE]

\* i64 values are four 16-bit limbs, most significant first.
ToI64(n) == <<0, 0, n \div 65536, n % 65536>>

KEEP_ALIVE_INTERVAL == 20000
KEEP_ALIVE_TIMEOUT == 30000
HASHED_SEED == 12345

\* The clock counts in ticks of one keep-alive sleep.
TickMs == KEEP_ALIVE_INTERVAL

\* Connection::start_keep_alive_timer: the loop is a pool task that sleeps
\* before each round.
start_keep_alive_timer(w, t) ==
    [w EXCEPT !.pool = @ \cup {[name |-> "keep_alive", wake |-> t + KEEP_ALIVE_INTERVAL \div TickMs]}]

\* Connection::initialize_play_state
initialize_play_state(w, t) ==
    start_keep_alive_timer(
        send_packet([w EXCEPT !.conn.entity_id_ = 1],
                    JoinGamePacket(1, ToI64(HASHED_SEED))), t)

\* One round of the keep-alive loop, after its sleep.
keep_alive_round(w, task, t) ==
    LET woke == [w EXCEPT !.pool = @ \ {task}]
        sent == IF woke.conn.state_ = PLAY
                THEN send_packet(woke, KeepAlivePacket(ToI64(t), CLIENTBOUND))
                ELSE woke
        late == woke.conn.state_ = PLAY /\ (t - woke.conn.last_keep_alive_) * TickMs > KEEP_ALIVE_TIMEOUT
        done == IF late THEN close(sent) ELSE sent
    IN  IF late \/ done.conn.closed_
        THEN done
        ELSE [done EXCEPT !.pool = @ \cup {[name |-> "keep_alive", wake |-> t + KEEP_ALIVE_INTERVAL \div TickMs]}]

----------------------------------------------------------------------------
(* The connection as a state machine                                       *)

MaxReads == 3      \* read completions per connection
MaxBatch == 2      \* frames dispatched by one read completion
MaxTime == 2       \* clock ticks

NoDispatch == [state |-> HANDSHAKING, id |-> -1, len |-> 0, kind |-> "none", read |-> 0]

InitConn ==
    [state_ |-> HANDSHAKING, closed_ |-> FALSE, writing_ |-> FALSE,
     write_queue_ |-> <<>>, last_keep_alive_ |-> 0, entity_id_ |-> 0,
     profile_ |-> [username |-> <<>>, uuid |-> Zeros(16)],
     location_ |-> <<ToI64(0), ToI64(0), ToI64(0)>>,
     read_buffer_ |-> [mem |-> <<>>, size_ |-> 0, read_pos_ |-> 0]]

InitSock(eager) ==
    [open |-> TRUE, eager |-> eager, read_pending |-> TRUE,
     ops |-> <<>>, wire_out |-> <<>>, rx |-> <<>>]

InitHist ==
    [pushed |-> <<>>, handed |-> <<>>, last |-> NoDispatch, pings |-> {},
     reads |-> 0, calls |-> 0, framed |-> <<>>, dispatched |-> <<>>,
     frame |-> [body_start |-> 0, len |-> 0, cursor |-> 0]]

Builds == {"connection.hpp", "fixes_and_integration.hpp"}

World == [conn |-> conn, sock |-> sock, pool |-> pool, hist |-> hist]

Commit(w) ==
    /\ conn' = w.conn
    /\ sock' = w.sock
    /\ pool' = w.pool
    /\ hist' = w.hist

Init ==
    /\ chunks = <<>> /\ disk = <<>> /\ workers = <<>> /\ view = <<>>
    /\ conn = InitConn
    /\ \E eager \in BOOLEAN : sock = InitSock(eager)
    /\ pool = {}
    /\ now = 0
    /\ build \in Builds
    /\ hist = InitHist
    /\ thr = <<>>
    /\ players = <<>>

\* What a client can put in the handshake's next_state field.
NextStates == {1, 2, 3, 4}

MaxBody == 9       \* bytes of the longest frame body a client sends here

Padded(bytes) == bytes \o Zeros(MaxBody - Len(bytes))

HandshakeBody(version, next_state) ==
    write_varint(0) \o write_varint(version) \o write_string(<<>>)
    \o write_be16(25565) \o write_varint(next_state)

PingBody == write_varint(1) \o write_be64(ToI64(42))
KeepAliveBody == write_varint(18) \o write_be64(ToI64(7))

\* Contents of the memory handle_read builds its packet buffers from: the
\* bodies of the frames above, or zeroes (which read as a StatusRequest, as
\* a LoginStart with an empty name, or as a Handshake of protocol 0).
Images ==
    {Padded(HandshakeBody(MINECRAFT_PROTOCOL_VERSION, ns)) : ns \in NextStates}
    \cup {Zeros(MaxBody), Padded(PingBody), Padded(KeepAliveBody)}

\* Frame lengths a read completion parses out of the stream.
FrameLens == {0, MaxBody}

Batches == UNION {[1..n -> FrameLens] : n \in 1..MaxBatch}

\* Connection::handle_read, one completion, by the frames its loop finds:
\* every packet buffer of one completion starts at the same address,
\* data() + size(), and the lengths are the VarInts parsed from the stream.
\* An exception leaving process_packet closes the connection and ends the
\* call; otherwise the next read is started.
RECURSIVE frame_loop(_, _, _, _, _)
frame_loop(w, image, lens, t, variant) ==
    IF lens = <<>>
    THEN start_read(w)
    ELSE LET r == process_packet(w, SubSeq(image, 1, Head(lens)), t, variant)
         IN  IF r.thrown
             THEN close(r.w)
             ELSE frame_loop(r.w, image, Tail(lens), t, variant)

HandleRead ==
    /\ sock.read_pending
    /\ hist.reads < MaxReads
    /\ \E image \in Images, lens \in Batches :
          Commit(frame_loop([World EXCEPT !.sock.read_pending = FALSE,
                                          !.hist.reads = @ + 1],
                            image, lens, now, build))
    /\ UNCHANGED <<now, build, thr, players, chunks, disk, workers, view>>

\* The read completes with an error (the peer hung up): handle_read closes.
ReadError ==
    /\ sock.read_pending
    /\ Commit(close(World))
    /\ UNCHANGED <<now, build, thr, players, chunks, disk, workers, view>>

Without(seq, i) == SubSeq(seq, 1, i - 1) \o SubSeq(seq, i + 1, Len(seq))

\* The socket sends what is left of an outstanding write, which completes.
SocketWriteDone ==
    /\ sock.open
    /\ \E i \in 1..Len(sock.ops) :
          /\ ~sock.ops[i].done
          /\ sock' = [sock EXCEPT
                         !.ops[i] = [@ EXCEPT !.done = TRUE, !.sent = Len(sock.ops[i].buf)],
                         !.wire_out = @ \o SubSeq(sock.ops[i].buf, sock.ops[i].sent + 1,
                                                  Len(sock.ops[i].buf))]
    /\ UNCHANGED <<conn, pool, now, build, hist, thr, players, chunks, disk, workers, view>>

\* The completion handler of a completed write runs.
HandleWrite ==
    /\ \E i \in 1..Len(sock.ops) :
          /\ sock.ops[i].done
          /\ Commit(handle_write([World EXCEPT !.sock.ops = Without(@, i)],
                                 sock.ops[i].ec))
    /\ UNCHANGED <<now, build, thr, players, chunks, disk, workers, view>>

\* A pool worker runs the task handle_login_packet submitted.
InitializePlayState ==
    /\ \E task \in pool :
          /\ task.name = "initialize_play_state"
          /\ Commit(initialize_play_state([World EXCEPT !.pool = @ \ {task}], now))
    /\ UNCHANGED <<now, build, thr, players, chunks, disk, workers, view>>

\* The keep-alive task wakes from its sleep and runs one round.
KeepAlive ==
    /\ \E task \in pool :
          /\ task.name = "keep_alive"
          /\ now >= task.wake
          /\ Commit(keep_alive_round(World, task, now))
    /\ UNCHANGED <<now, build, thr, players, chunks, disk, workers, view>>

\* The task handle_status_packet of fixes_and_integration.hpp submitted
\* has slept and closes the connection.
DeferredClose ==
    /\ \E task \in pool :
          /\ task.name = "close"
          /\ Commit(close([World EXCEPT !.pool = @ \ {task}]))
    /\ UNCHANGED <<now, build, thr, players, chunks, disk, workers, view>>

\* Time passes. Only the PLAY phase reads the clock (handle_play_packet and
\* the keep-alive round), so the model lets it run from there.
Tick ==
    /\ conn.state_ = PLAY
    /\ now < MaxTime
    /\ now' = now + 1
    /\ UNCHANGED <<conn, sock, pool, build, hist, thr, players, chunks, disk, workers, view>>

Next ==
    \/ HandleRead
    \/ ReadError
    \/ SocketWriteDone
    \/ HandleWrite
    \/ InitializePlayState
    \/ KeepAlive
    \/ DeferredClose
    \/ Tick

Spec == Init /\ [][Next]_vars

----------------------------------------------------------------------------
(* Properties of the connection                                            *)

Contains(bytes, part) ==
    \E i \in 0..(Len(bytes) - Len(part)) : SubSeq(bytes, i + 1, i + Len(part)) = part

PhaseSteps == {<<HANDSHAKING, STATUS>>, <<HANDSHAKING, LOGIN>>, <<LOGIN, PLAY>>}

\* C1: the phase changes only HANDSHAKING -> STATUS, HANDSHAKING -> LOGIN
\* or LOGIN -> PLAY, whatever next_state the client sends; it never goes
\* back and never leaves the four phases.
C1_PhaseMachine ==
    [][conn'.state_ = conn.state_ \/ <<conn.state_, conn'.state_>> \in PhaseSteps]_vars

\* C6: once a PingRequest with payload p was handled on an open connection,
\* the socket is not closed before the PingResponse carrying p went out
\* whole.
C6_PongBeforeClose ==
    \A p \in hist.pings :
        ~sock.open => Contains(sock.wire_out, Frame(PingResponsePacket(p)))

\* C7: a PingResponse is the last frame ever pushed on the write queue.
C7_NothingAfterPong ==
    \A i \in 1..Len(hist.pushed) :
        hist.pushed[i].kind = "PingResponse" => i = Len(hist.pushed)

\* C8: when a connection that logged in and is in PLAY is handed a whole
\* frame with packet id 0x12,
\* the frame is decoded as a KeepAlive and last_keep_alive_ becomes the time
\* of receipt.
C8_KeepAliveSeen ==
    [][(/\ hist'.last # hist.last
        /\ \E i \in 1..Len(hist.pushed) : hist.pushed[i].kind = "LoginSuccess"
        /\ hist'.last.state = PLAY
        /\ hist'.last.id = 18
        /\ hist'.last.len >= 1 + 8)
       => (hist'.last.kind = "KeepAlive" /\ conn'.last_keep_alive_ = now)]_vars

----------------------------------------------------------------------------
(* The read path byte by byte: the client's stream reaches handle_read in  *)
(* pieces of any size.                                                     *)

BlockBytes == 24   \* bytes of read_buffer_'s pool block the model keeps
MaxFrames == 2     \* frames in a client's stream

FrameOf(body) == write_varint(Len(body)) \o body

\* Bodies of complete frames: a Handshake, a StatusRequest, a PingRequest,
\* and a frame whose id no phase knows.
ClientBodies ==
    {HandshakeBody(MINECRAFT_PROTOCOL_VERSION, STATUS), <<0>>, PingBody,
     <<1, 127, 127, 127, 127, 127, 127>>}

ClientStreams == UNION {[1..n -> ClientBodies] : n \in 1..MaxFrames}

RECURSIVE Flatten(_)
Flatten(bodies) ==
    IF bodies = <<>> THEN <<>> ELSE FrameOf(Head(bodies)) \o Flatten(Tail(bodies))

\* What the pool block handed to read_buffer_ holds when the connection is
\* made: zeroes (a block never used) or what an earlier buffer left in it.
StaleBlocks ==
    {Zeros(BlockBytes),
     Zeros(8) \o HandshakeBody(MINECRAFT_PROTOCOL_VERSION, STATUS)
         \o Zeros(BlockBytes - 8 - Len(HandshakeBody(MINECRAFT_PROTOCOL_VERSION, STATUS)))}

\* Buffer::write on a buffer whose write_pos_ equals its size_.
Buffer_write(rb, bytes) ==
    [rb EXCEPT !.mem = [i \in 1..Len(@) |->
                           IF i > rb.size_ /\ i <= rb.size_ + Len(bytes)
                           THEN bytes[i - rb.size_] ELSE @[i]],
               !.size_ = @ + Len(bytes)]

\* Buffer::readable
readable(rb) == rb.size_ - rb.read_pos_

\* Buffer(const byte* data, size_t size) over data() + offset.
Buffer_at(rb, offset, size) ==
    [i \in 1..size |-> IF offset + i <= Len(rb.mem) THEN rb.mem[offset + i] ELSE 0]

\* The while loop of Connection::handle_read.
RECURSIVE read_loop(_, _, _)
read_loop(w, t, variant) ==
    LET rb == w.conn.read_buffer_
    IN  IF readable(rb) = 0
        THEN start_read(w)
        ELSE
        LET initial_pos == rb.size_
            packet_length == read_varint(SubSeq(rb.mem, 1, rb.size_), rb.read_pos_)
            after == [w EXCEPT !.conn.read_buffer_.read_pos_ = packet_length.pos]
        IN  IF ~packet_length.ok
            THEN close(after)
            ELSE IF packet_length.val < 0
                    \/ readable(after.conn.read_buffer_) < packet_length.val
            THEN start_read(after)
            ELSE
            LET packet_data == Buffer_at(rb, initial_pos, packet_length.val)
                r == process_packet(
                         [after EXCEPT !.hist.dispatched = Append(@, packet_data)],
                         packet_data, t, variant)
            IN  IF r.thrown
                THEN close(r.w)
                ELSE read_loop(
                         [r.w EXCEPT !.hist.frame =
                             [body_start |-> packet_length.pos,
                              len |-> packet_length.val,
                              cursor |-> r.w.conn.read_buffer_.read_pos_]],
                         t, variant)

\* Connection::handle_read
handle_read(w, temp_read_buf_, t, variant) ==
    read_loop([w EXCEPT !.conn.read_buffer_ = Buffer_write(@, temp_read_buf_)],
              t, variant)

\* async_read_some completes with the next n bytes of the stream.
ReadBytes ==
    /\ sock.read_pending
    /\ sock.rx # <<>>
    /\ \E n \in 1..Len(sock.rx) :
          Commit(handle_read([World EXCEPT !.sock.read_pending = FALSE,
                                           !.sock.rx = SubSeq(@, n + 1, Len(@)),
                                           !.hist.reads = @ + 1],
                             SubSeq(sock.rx, 1, n), now, build))
    /\ UNCHANGED <<now, build, thr, players, chunks, disk, workers, view>>

InitFrame ==
    /\ chunks = <<>> /\ disk = <<>> /\ workers = <<>> /\ view = <<>>
    /\ \E block \in StaleBlocks : conn = [InitConn EXCEPT !.read_buffer_.mem = block]
    /\ \E eager \in BOOLEAN, stream \in ClientStreams :
          /\ sock = [InitSock(eager) EXCEPT !.rx = Flatten(stream)]
          /\ hist = [InitHist EXCEPT !.framed = stream]
    /\ pool = {}
    /\ now = 0
    /\ build \in Builds
    /\ thr = <<>>
    /\ players = <<>>

NextFrame ==
    \/ ReadBytes
    \/ ReadError
    \/ SocketWriteDone
    \/ HandleWrite

SpecFrame == InitFrame /\ [][NextFrame]_vars

IsPrefix(s, t) == Len(s) <= Len(t) /\ SubSeq(t, 1, Len(s)) = s

\* No task is ever submitted on this path, so NextFrame leaves none out.
FrameNoTask == pool = {}

\* C2: whatever the split of the stream across reads, the packet buffers
\* handed to process_packet are the bodies of the stream's frames, in order.
C2_DispatchesFramed == IsPrefix(hist.dispatched, hist.framed)

\* C3: after the frame loop consumed a frame, the read cursor stands at the
\* frame's end (the first byte after its body).
C3_CursorAtFrameEnd == hist.frame.cursor = hist.frame.body_start + hist.frame.len

----------------------------------------------------------------------------
(* The writer statement by statement: send_packet, start_write,            *)
(* handle_write and close run on several threads at once. A step is one    *)
(* atomic operation or one critical section of write_mutex_.               *)

MaxCalls == 4      \* calls of send_packet and close the sender threads make

\* Threads that call send_packet and close (an io thread inside a packet
\* handler, a pool worker inside a task) and the io threads that run the
\* write completion handlers.
Senders == {"s1", "s2"}
IoThreads == {"io1", "io2"}
Threads == Senders \cup IoThreads

Idle == [pc |-> "idle", ec |-> FALSE, p |-> NoPacket]

At(t, pc) == thr[t].pc = pc

Goto(t, pc) == thr' = [thr EXCEPT ![t].pc = pc]

Return(t) == thr' = [thr EXCEPT ![t] = Idle]

\* send_packet(p) is called: if (closed_.load()) return; then fin is built.
SendPacketCall(t) ==
    /\ At(t, "idle")
    /\ hist.calls < MaxCalls
    /\ hist' = [hist EXCEPT !.calls = @ + 1]
    /\ IF conn.closed_
       THEN UNCHANGED thr
       ELSE thr' = [thr EXCEPT ![t] =
                       [pc |-> "push", ec |-> FALSE,
                        p |-> KeepAlivePacket(ToI64(hist.calls + 1), CLIENTBOUND)]]
    /\ UNCHANGED <<conn, sock, pool, now, build, players, chunks, disk, workers, view>>

\* send_packet: the critical section that pushes fin.
SendPacketPush(t) ==
    /\ At(t, "push")
    /\ Commit(push(World, thr[t].p))
    /\ Goto(t, "start_write")
    /\ UNCHANGED <<now, build, players, chunks, disk, workers, view>>

\* start_write: if (writing_.exchange(true)) return;
StartWriteExchange(t) ==
    /\ At(t, "start_write")
    /\ IF exchange_returns(conn.writing_)
       THEN Return(t) /\ UNCHANGED conn
       ELSE Goto(t, "start_write_locked") /\ conn' = [conn EXCEPT !.writing_ = TRUE]
    /\ UNCHANGED <<sock, pool, now, build, hist, players, chunks, disk, workers, view>>

\* start_write: the critical section that looks at the queue and either
\* resets writing_ or gives the front frame to the socket.
StartWriteLocked(t) ==
    /\ At(t, "start_write_locked")
    /\ IF conn.write_queue_ = <<>>
       THEN Commit([World EXCEPT !.conn.writing_ = FALSE])
       ELSE Commit(async_write(World, Head(conn.write_queue_)))
    /\ Return(t)
    /\ UNCHANGED <<now, build, players, chunks, disk, workers, view>>

\* An io thread takes the completion of a write and enters handle_write.
HandleWriteCall(t) ==
    /\ At(t, "idle")
    /\ \E i \in 1..Len(sock.ops) :
          /\ sock.ops[i].done
          /\ sock' = [sock EXCEPT !.ops = Without(@, i)]
          /\ thr' = [thr EXCEPT ![t] = [pc |-> "handle_write", ec |-> sock.ops[i].ec,
                                        p |-> NoPacket]]
    /\ UNCHANGED <<conn, pool, now, build, hist, players, chunks, disk, workers, view>>

\* handle_write: the critical section that pops the queue.
HandleWritePop(t) ==
    /\ At(t, "handle_write")
    /\ conn' = [conn EXCEPT !.write_queue_ = pop(@)]
    /\ Goto(t, "handle_write_ec")
    /\ UNCHANGED <<sock, pool, now, build, hist, players, chunks, disk, workers, view>>

\* handle_write: if (ec) { close(); return; } writing_.store(false);
HandleWriteEc(t) ==
    /\ At(t, "handle_write_ec")
    /\ IF thr[t].ec
       THEN Goto(t, "close") /\ UNCHANGED conn
       ELSE Goto(t, "start_write") /\ conn' = [conn EXCEPT !.writing_ = FALSE]
    /\ UNCHANGED <<sock, pool, now, build, hist, players, chunks, disk, workers, view>>

\* close() is called by a sender thread.
CloseCall(t) ==
    /\ At(t, "idle")
    /\ hist.calls < MaxCalls
    /\ hist' = [hist EXCEPT !.calls = @ + 1]
    /\ Goto(t, "close")
    /\ UNCHANGED <<conn, sock, pool, now, build, players, chunks, disk, workers, view>>

closed_exchange_false(closed_) == FALSE

\* closed_.exchange(true): the value closed_ had
closed_exchange(closed_) == closed_

\* close: if (closed_.exchange(true)) return;
CloseExchange(t) ==
    /\ At(t, "close")
    /\ IF closed_exchange(conn.closed_)
       THEN Return(t) /\ UNCHANGED conn
       ELSE Goto(t, "socket_close") /\ conn' = [conn EXCEPT !.closed_ = TRUE]
    /\ UNCHANGED <<sock, pool, now, build, hist, players, chunks, disk, workers, view>>

\* close: socket_.close(ec)
CloseSocket(t) ==
    /\ At(t, "socket_close")
    /\ Commit(socket_close(World))
    /\ Return(t)
    /\ UNCHANGED <<now, build, players, chunks, disk, workers, view>>

\* The socket sends the first half of a write it has not begun.
SocketWriteSome ==
    /\ sock.open
    /\ \E i \in 1..Len(sock.ops) :
          /\ ~sock.ops[i].done
          /\ sock.ops[i].sent = 0
          /\ LET half == Len(sock.ops[i].buf) \div 2
             IN  sock' = [sock EXCEPT
                            !.ops[i] = [@ EXCEPT !.sent = half],
                            !.wire_out = @ \o SubSeq(sock.ops[i].buf, 1, half)]
    /\ UNCHANGED <<conn, pool, now, build, hist, thr, players, chunks, disk, workers, view>>

InitWriter ==
    /\ chunks = <<>> /\ disk = <<>> /\ workers = <<>> /\ view = <<>>
    /\ conn = InitConn
    /\ \E eager \in BOOLEAN : sock = InitSock(eager)
    /\ pool = {}
    /\ now = 0
    /\ build = "connection.hpp"
    /\ hist = InitHist
    /\ thr = [t \in Threads |-> Idle]
    /\ players = <<>>

NextWriter ==
    \/ \E t \in Senders : SendPacketCall(t)
    \/ \E t \in Senders : SendPacketPush(t)
    \/ \E t \in Threads : StartWriteExchange(t)
    \/ \E t \in Threads : StartWriteLocked(t)
    \/ \E t \in IoThreads : HandleWriteCall(t)
    \/ \E t \in IoThreads : HandleWritePop(t)
    \/ \E t \in IoThreads : HandleWriteEc(t)
    \/ \E t \in Senders : CloseCall(t)
    \/ \E t \in Threads : CloseExchange(t)
    \/ \E t \in Threads : CloseSocket(t)
    \/ SocketWriteSome
    \/ SocketWriteDone

SpecWriter == InitWriter /\ [][NextWriter]_vars

PushedFrames == [i \in 1..Len(hist.pushed) |-> hist.pushed[i].frame]

RECURSIVE Concat(_)
Concat(frames) == IF frames = <<>> THEN <<>> ELSE Head(frames) \o Concat(Tail(frames))

Quiet == (\A t \in Threads : At(t, "idle")) /\ sock.ops = <<>>

\* C4: the frames given to the socket are the pushed frames in push order,
\* each once; the bytes on the wire are those frames whole and in order;
\* and on an open connection at rest everything pushed has gone out.
C4_WriteOrder ==
    /\ IsPrefix(hist.handed, PushedFrames)
    /\ IsPrefix(sock.wire_out, Concat(PushedFrames))
    /\ (Quiet /\ ~conn.closed_) => sock.wire_out = Concat(PushedFrames)

\* Frames of both senders were pushed and all of them went out.
C4_Witness ==
    /\ Len(hist.pushed) >= 2
    /\ Len(hist.handed) = Len(hist.pushed)
    /\ sock.wire_out = Concat(PushedFrames)

\* C5: at most one asynchronous write of the connection is outstanding.
C5_OneWrite == Len(sock.ops) <= 1

\* A write is outstanding while another thread stands at start_write's
\* exchange with a frame waiting behind it.
C5_Witness ==
    /\ Len(sock.ops) = 1
    /\ Len(conn.write_queue_) >= 2
    /\ \E t \in Threads : At(t, "start_write")

\* C22: closed_ never goes back from true to false, and a thread that
\* executes socket_.close finds the socket still open: under repeated and
\* concurrent close() calls the socket is closed once.
C22_CloseOnce ==
    [][/\ conn.closed_ => conn'.closed_
       /\ \A t \in Threads :
             (At(t, "socket_close") /\ thr'[t].pc # "socket_close") => sock.open]_vars

\* The socket has been closed by one call of close() and another call, of a
\* sender or of a write's completion handler, is at the exchange.
C22_Witness ==
    /\ conn.closed_ /\ ~sock.open
    /\ \E t \in Senders : At(t, "close")
    /\ \E t \in IoThreads : At(t, "close")

----------------------------------------------------------------------------
(* Logging in: entity/entity.hpp PlayerManager with create_player as       *)
(* complete_integration.cpp and minecraft_server_complete.cpp define it.   *)
(* Each connection's initialize_play_state runs on a pool worker; a step   *)
(* is one atomic operation or one critical section of players_mutex_.      *)
(* Here conn and thr hold one entry per connection.                        *)

MaxPlayers == 1    \* g_config.get_max_players() of the modelled server

Conns == {"c1", "c2"}

Profiles ==
    {[uuid |-> "u1", username |-> "Ann"], [uuid |-> "u2", username |-> "Bob"]}

NoProfile == [uuid |-> "", username |-> ""]

LoginBuilds == {"complete_integration.cpp", "minecraft_server_complete.cpp"}

\* std::unordered_map: operator[] assignment and erase.
Put(map, key, value) ==
    [k \in (DOMAIN map) \cup {key} |-> IF k = key THEN value ELSE map[k]]

Erase(map, key) == [k \in (DOMAIN map) \ {key} |-> map[k]]

NoMap == [k \in {} |-> 0]

\* Player::is_online: online_ is true from the constructor on.
is_online(player) == ~conn[player.connection_].closed_

\* PlayerManager::get_online_count
get_online_count ==
    Cardinality({u \in DOMAIN players.players_by_uuid_ :
                    is_online(players.players_by_uuid_[u])})

\* PlayerManager::get_player(const UUID&): whether a player was found.
get_player(uuid) == uuid \in DOMAIN players.players_by_uuid_

\* Connection::send_packet, by the packet's kind.
Sent(c, kind) ==
    IF conn[c].closed_ THEN conn ELSE [conn EXCEPT ![c].sent = Append(@, kind)]

\* Connection::handle_login_packet on a LoginStart. The build of
\* minecraft_server_complete.cpp first turns the client away when the
\* server is full (the usernames here are valid).
LoginStart(c) ==
    /\ conn[c].state_ = LOGIN
    /\ ~conn[c].closed_
    /\ thr[c].pc = "none"
    /\ \E profile \in Profiles :
          IF build = "minecraft_server_complete.cpp" /\ get_online_count >= MaxPlayers
          THEN /\ conn' = [conn EXCEPT ![c].profile_ = profile, ![c].closed_ = TRUE]
               /\ UNCHANGED thr
          ELSE /\ conn' = [conn EXCEPT ![c].profile_ = profile,
                                       ![c].sent = Append(@, "LoginSuccess"),
                                       ![c].state_ = PLAY]
               /\ thr' = [thr EXCEPT ![c].pc = "initialize_play_state"]
    /\ UNCHANGED <<sock, pool, now, build, hist, players, chunks, disk, workers, view>>

\* Connection::initialize_play_state:
\* entity_id_.store(g_player_manager.get_next_entity_id())
InitializeEntityId(c) ==
    /\ thr[c].pc = "initialize_play_state"
    /\ conn' = [conn EXCEPT ![c].entity_id_ = players.next_entity_id_]
    /\ players' = [players EXCEPT !.next_entity_id_ = @ + 1]
    /\ thr' = [thr EXCEPT ![c].pc = "create_player"]
    /\ UNCHANGED <<sock, pool, now, build, hist, chunks, disk, workers, view>>

\* create_player: if (get_online_count() >= max_players) return nullptr;
CreatePlayerFull(c) ==
    /\ thr[c].pc = "create_player"
    /\ thr' = [thr EXCEPT ![c].pc =
                  IF get_online_count >= MaxPlayers THEN "no_player" ELSE "get_player"]
    /\ UNCHANGED <<conn, sock, pool, now, build, hist, players, chunks, disk, workers, view>>

\* create_player: if (get_player(profile.uuid)) return nullptr;
CreatePlayerDuplicate(c) ==
    /\ thr[c].pc = "get_player"
    /\ thr' = [thr EXCEPT ![c].pc =
                  IF get_player(conn[c].profile_.uuid) THEN "no_player" ELSE "make_player"]
    /\ UNCHANGED <<conn, sock, pool, now, build, hist, players, chunks, disk, workers, view>>

\* create_player: entity_id = get_next_entity_id(); the Player is made.
CreatePlayerMake(c) ==
    /\ thr[c].pc = "make_player"
    /\ thr' = [thr EXCEPT ![c].pc = "insert", ![c].entity_id = players.next_entity_id_]
    /\ players' = [players EXCEPT !.next_entity_id_ = @ + 1]
    /\ UNCHANGED <<conn, sock, pool, now, build, hist, chunks, disk, workers, view>>

\* create_player: the critical section that stores the player in the maps.
CreatePlayerInsert(c) ==
    /\ thr[c].pc = "insert"
    /\ LET player == [connection_ |-> c, profile_ |-> conn[c].profile_,
                      entity_id_ |-> thr[c].entity_id]
       IN  players' = [players EXCEPT
               !.players_by_uuid_ = Put(@, player.profile_.uuid, player),
               !.players_by_name_ = Put(@, player.profile_.username, player),
               !.players_by_entity_id_ = Put(@, player.entity_id_, player)]
    /\ thr' = [thr EXCEPT ![c].pc = "player"]
    /\ UNCHANGED <<conn, sock, pool, now, build, hist, chunks, disk, workers, view>>

\* initialize_play_state: if (!player) { close(); return; }
InitializeNoPlayer(c) ==
    /\ thr[c].pc = "no_player"
    /\ conn' = [conn EXCEPT ![c].closed_ = TRUE]
    /\ thr' = [thr EXCEPT ![c].pc = "done"]
    /\ UNCHANGED <<sock, pool, now, build, hist, players, chunks, disk, workers, view>>

\* initialize_play_state with a player: JoinGame carrying entity_id_ is sent.
InitializeJoin(c) ==
    /\ thr[c].pc = "player"
    /\ conn' = Sent(c, "JoinGame")
    /\ thr' = [thr EXCEPT ![c].pc = "done"]
    /\ UNCHANGED <<sock, pool, now, build, hist, players, chunks, disk, workers, view>>

\* The client goes away: the connection's read fails and it closes.
Disconnect(c) ==
    /\ ~conn[c].closed_
    /\ conn' = [conn EXCEPT ![c].closed_ = TRUE]
    /\ UNCHANGED <<sock, pool, now, build, hist, thr, players, chunks, disk, workers, view>>

\* PlayerManager::remove_player
remove_player(pm, uuid) ==
    IF uuid \in DOMAIN pm.players_by_uuid_
    THEN LET player == pm.players_by_uuid_[uuid]
         IN  [pm EXCEPT !.players_by_uuid_ = Erase(@, uuid),
                        !.players_by_name_ = Erase(@, player.profile_.username),
                        !.players_by_entity_id_ = Erase(@, player.entity_id_)]
    ELSE pm

\* PlayerManager::cleanup_offline_players, for one player found offline
\* for more than ten minutes.
CleanupOfflinePlayer ==
    /\ \E uuid \in DOMAIN players.players_by_uuid_ :
          /\ ~is_online(players.players_by_uuid_[uuid])
          /\ players' = remove_player(players, uuid)
    /\ UNCHANGED <<conn, sock, pool, now, build, hist, thr, chunks, disk, workers, view>>

InitPlayers ==
    /\ chunks = <<>> /\ disk = <<>> /\ workers = <<>> /\ view = <<>>
    /\ conn = [c \in Conns |->
                  [state_ |-> LOGIN, closed_ |-> FALSE, profile_ |-> NoProfile,
                   entity_id_ |-> 0, sent |-> <<>>]]
    /\ sock = InitSock(TRUE)
    /\ pool = {}
    /\ now = 0
    /\ build \in LoginBuilds
    /\ hist = InitHist
    /\ thr = [c \in Conns |-> [pc |-> "none", entity_id |-> 0]]
    /\ players = [players_by_uuid_ |-> NoMap, players_by_name_ |-> NoMap,
                  players_by_entity_id_ |-> NoMap, next_entity_id_ |-> 1]

NextPlayers ==
    \/ \E c \in Conns : LoginStart(c)
    \/ \E c \in Conns : InitializeEntityId(c)
    \/ \E c \in Conns : CreatePlayerFull(c)
    \/ \E c \in Conns : CreatePlayerDuplicate(c)
    \/ \E c \in Conns : CreatePlayerMake(c)
    \/ \E c \in Conns : CreatePlayerInsert(c)
    \/ \E c \in Conns : InitializeNoPlayer(c)
    \/ \E c \in Conns : InitializeJoin(c)
    \/ \E c \in Conns : Disconnect(c)
    \/ CleanupOfflinePlayer

SpecPlayers == InitPlayers /\ [][NextPlayers]_vars

Joined(c) == \E i \in 1..Len(conn[c].sent) : conn[c].sent[i] = "JoinGame"

\* C9: of two live connections that logged in with the same UUID at most
\* one was sent JoinGame; the other is closed without one.
C9_OneSessionPerUuid ==
    \A c1, c2 \in Conns :
        (/\ c1 # c2
         /\ conn[c1].profile_.uuid = conn[c2].profile_.uuid
         /\ Joined(c1)
         /\ Joined(c2))
        => (conn[c1].closed_ \/ conn[c2].closed_)

\* C10: the number of online players in the registry never exceeds
\* max_players.
C10_OnlineWithinMax == get_online_count <= MaxPlayers

-----------------------------------------------------------------------------
(* world/block.hpp, world/chunk.hpp : ChunkSection and Chunk                *)
(*                                                                         *)
(* A section keeps the first SectionCells cells of its block array (the    *)
(* index test of ChunkSection::set_block drops every other cell), so the   *)
(* stored cells are x < SectionCells at local y = 0, z = 0.                *)

AIR == 0
STONE == 1
GRASS_BLOCK == 2
DIRT == 3
COBBLESTONE == 4
BEDROCK == 7

CHUNK_SIZE == 16
WORLD_MIN_Y == 0 - 64
WORLD_MAX_Y == 320
SECTION_SIZE == 16
SECTIONS_PER_CHUNK == (WORLD_MAX_Y - WORLD_MIN_Y) \div 16

SectionCells == 2
BLOCKS_PER_SECTION == SectionCells
LightBytes == (BLOCKS_PER_SECTION + 1) \div 2

\* C++ integer division, which truncates toward zero.
TruncDiv(a, b) == IF a >= 0 THEN a \div b ELSE 0 - ((0 - a) \div b)

NoSection ==
    [present |-> FALSE, blocks |-> <<>>, block_light |-> <<>>, sky_light |-> <<>>,
     block_count |-> 0]

\* ChunkSection::ChunkSection
NewSection ==
    [present |-> TRUE,
     blocks |-> [i \in 1..BLOCKS_PER_SECTION |-> AIR],
     block_light |-> [i \in 1..LightBytes |-> 0],
     sky_light |-> [i \in 1..LightBytes |-> 255],
     block_count |-> 0]

CellIndex(x, y, z) == (y * SECTION_SIZE + z) * SECTION_SIZE + x

InSection(index) == index >= 0 /\ index < BLOCKS_PER_SECTION

\* ChunkSection::get_block
ChunkSection_get_block(s, x, y, z) ==
    LET index == CellIndex(x, y, z)
    IN  IF InSection(index) THEN s.blocks[index + 1] ELSE AIR

\* ChunkSection::set_block without lines 144-148: the cell is written and
\* block_count is left alone.
ChunkSection_set_block_uncounted(s, x, y, z, id) ==
    LET index == CellIndex(x, y, z)
    IN  IF ~InSection(index) THEN s
        ELSE [s EXCEPT !.blocks[index + 1] = id]

\* ChunkSection::set_block
ChunkSection_set_block(s, x, y, z, id) ==
    LET index == CellIndex(x, y, z)
    IN  IF ~InSection(index) THEN s
        ELSE LET old_block == s.blocks[index + 1]
                 count == IF old_block = AIR /\ id # AIR THEN s.block_count + 1
                          ELSE IF old_block # AIR /\ id = AIR THEN s.block_count - 1
                          ELSE s.block_count
             IN  [s EXCEPT !.blocks[index + 1] = id, !.block_count = count]

\* The nibble of a light array that belongs to a cell.
get_nibble(arr, index) ==
    LET byte_idx == index \div 2
    IN  IF index % 2 = 1 THEN arr[byte_idx + 1] \div 16 ELSE arr[byte_idx + 1] % 16

set_nibble(arr, index, light) ==
    LET byte_idx == index \div 2
        l == light % 16
        old == arr[byte_idx + 1]
    IN  [arr EXCEPT ![byte_idx + 1] =
            IF index % 2 = 1 THEN (old % 16) + l * 16 ELSE (old \div 16) * 16 + l]

\* ChunkSection::get_block_light, ChunkSection::set_block_light
ChunkSection_get_block_light(s, x, y, z) ==
    IF InSection(CellIndex(x, y, z)) THEN get_nibble(s.block_light, CellIndex(x, y, z)) ELSE 0

ChunkSection_set_block_light(s, x, y, z, light) ==
    IF InSection(CellIndex(x, y, z))
    THEN [s EXCEPT !.block_light = set_nibble(@, CellIndex(x, y, z), light)]
    ELSE s

\* ChunkSection::get_sky_light, ChunkSection::set_sky_light
ChunkSection_get_sky_light(s, x, y, z) ==
    IF InSection(CellIndex(x, y, z)) THEN get_nibble(s.sky_light, CellIndex(x, y, z)) ELSE 0

ChunkSection_set_sky_light(s, x, y, z, light) ==
    IF InSection(CellIndex(x, y, z))
    THEN [s EXCEPT !.sky_light = set_nibble(@, CellIndex(x, y, z), light)]
    ELSE s

\* Chunk::Chunk: no section yet, neither loaded nor dirty, the mutex free.
NewChunk(pos, t) ==
    [position_ |-> pos,
     sections_ |-> [i \in 0..(SECTIONS_PER_CHUNK - 1) |-> NoSection],
     loaded_ |-> FALSE, dirty_ |-> FALSE, last_access_ |-> t,
     sections_mutex_ |-> "free"]

\* Chunk::get_section_index
get_section_index(y) == TruncDiv(y - WORLD_MIN_Y, 16)

SectionInRange(section_idx) == section_idx >= 0 /\ section_idx < SECTIONS_PER_CHUNK

\* Chunk::get_or_create_section, for an index in range
get_or_create_section(ch, section_idx) ==
    IF ch.sections_[section_idx].present THEN ch
    ELSE [ch EXCEPT !.sections_[section_idx] = NewSection]

local_y(y, section_idx) == y - (section_idx * 16 + WORLD_MIN_Y)

\* Chunk::get_block
Chunk_get_block(ch, x, y, z) ==
    LET section_idx == get_section_index(y)
    IN  IF ~SectionInRange(section_idx) THEN AIR
        ELSE IF ~ch.sections_[section_idx].present THEN AIR
        ELSE ChunkSection_get_block(ch.sections_[section_idx], x, local_y(y, section_idx), z)

\* Chunk::set_block, between taking and releasing sections_mutex_
Chunk_set_block(ch, x, y, z, id, t) ==
    LET section_idx == get_section_index(y)
        made == get_or_create_section(ch, section_idx)
    IN  IF ~SectionInRange(section_idx) THEN ch
        ELSE [made EXCEPT
                 !.sections_[section_idx] =
                     ChunkSection_set_block(@, x, local_y(y, section_idx), z, id),
                 !.dirty_ = TRUE, !.last_access_ = t]

\* Chunk::get_block_light, Chunk::set_block_light
Chunk_get_block_light(ch, x, y, z) ==
    LET section_idx == get_section_index(y)
    IN  IF ~SectionInRange(section_idx) THEN 0
        ELSE IF ~ch.sections_[section_idx].present THEN 0
        ELSE ChunkSection_get_block_light(ch.sections_[section_idx], x, local_y(y, section_idx), z)

Chunk_set_block_light(ch, x, y, z, light) ==
    LET section_idx == get_section_index(y)
        made == get_or_create_section(ch, section_idx)
    IN  IF ~SectionInRange(section_idx) THEN ch
        ELSE [made EXCEPT
                 !.sections_[section_idx] =
                     ChunkSection_set_block_light(@, x, local_y(y, section_idx), z, light),
                 !.dirty_ = TRUE]

\* Chunk::get_sky_light, Chunk::set_sky_light
Chunk_get_sky_light(ch, x, y, z) ==
    LET section_idx == get_section_index(y)
    IN  IF ~SectionInRange(section_idx) THEN 0
        ELSE IF ~ch.sections_[section_idx].present THEN 15
        ELSE ChunkSection_get_sky_light(ch.sections_[section_idx], x, local_y(y, section_idx), z)

Chunk_set_sky_light(ch, x, y, z, light) ==
    LET section_idx == get_section_index(y)
        made == get_or_create_section(ch, section_idx)
    IN  IF ~SectionInRange(section_idx) THEN ch
        ELSE [made EXCEPT
                 !.sections_[section_idx] =
                     ChunkSection_set_sky_light(@, x, local_y(y, section_idx), z, light),
                 !.dirty_ = TRUE]

\* The block the loops of Chunk::generate_flat_world put at height y.
flat_block(y) ==
    IF y = WORLD_MIN_Y THEN BEDROCK
    ELSE IF y <= 60 THEN STONE
    ELSE IF y <= 63 THEN DIRT
    ELSE GRASS_BLOCK

\* A section after the set_block calls of generate_flat_world that fall in
\* it, cell by cell: cell k is (x, y, z) = (k % 16, k / 256, (k / 16) % 16),
\* and the loops write it when its height is at most 64.
RECURSIVE generate_cells(_, _, _)
generate_cells(s, section_idx, k) ==
    IF k >= BLOCKS_PER_SECTION THEN s
    ELSE LET x == k % SECTION_SIZE
             z == (k \div SECTION_SIZE) % SECTION_SIZE
             y == k \div (SECTION_SIZE * SECTION_SIZE)
             height == y + section_idx * 16 + WORLD_MIN_Y
         IN  generate_cells(IF height <= 64
                            THEN ChunkSection_set_block(s, x, y, z, flat_block(height))
                            ELSE s,
                            section_idx, k + 1)

\* The loops of generate_flat_world: every section with a height in
\* WORLD_MIN_Y .. 64 is created by get_or_create_section and written.
generate_columns(ch, t) ==
    [ch EXCEPT !.sections_ =
                  [i \in DOMAIN @ |->
                      IF \E y \in WORLD_MIN_Y..64 : get_section_index(y) = i
                      THEN generate_cells(get_or_create_section(ch, i).sections_[i], i, 0)
                      ELSE @[i]],
               !.dirty_ = TRUE, !.last_access_ = t]

\* Chunk::generate_flat_world, when its calls of set_block go through
generate_flat_world(ch, t) ==
    [generate_columns(ch, t) EXCEPT !.loaded_ = TRUE, !.dirty_ = TRUE]

-----------------------------------------------------------------------------
(* world/chunk.hpp : ChunkManager, with the threads that call it and the   *)
(* pool workers that run its jobs. A Chunk lives in chunks.heap; the map   *)
(* and the threads hold its index there, as they hold a ChunkPtr.          *)

MaxOps == 3
MaxLoaded == 1
chunk_timeout_ms_ == 300000

ChunkCoords == {<<0, 0>>, <<1, 0>>}
Positions == {[x |-> 1, y |-> 64, z |-> 0], [x |-> 17, y |-> 80, z |-> 0]}
PlacedBlocks == {COBBLESTONE}

ChunkCallers == {"io1", "tick"}
PoolWorkers == {"w1", "w2"}
ChunkThreads == ChunkCallers \cup PoolWorkers

\* What locking a std::mutex the thread already owns can do: it is
\* undefined; the thread hangs, or the lock throws std::system_error, or
\* the lock is granted.
RelockOutcomes == {"blocks", "throws", "proceeds"}

\* ChunkPos(pos.x >> 4, pos.z >> 4)
ChunkPosOf(p) == <<p.x \div 16, p.z \div 16>>

NullChunk == 0

AtPc(t, pc) == thr[t].pc = pc

ThreadIdle == [pc |-> "idle", pos |-> <<0, 0>>, chunk |-> NullChunk, p |-> [x |-> 0, y |-> 0, z |-> 0], block |-> AIR]

Jump(t, pc) == thr' = [thr EXCEPT ![t].pc = pc]

\* Chunk::touch on the chunk at a heap index
touch(store, id) == [store EXCEPT !.heap[id].last_access_ = now]

\* ChunkManager::get_chunk: the store after the call and the pointer returned.
get_chunk(store, pos) ==
    IF pos \in DOMAIN store.loaded_chunks_
    THEN [store |-> touch(store, store.loaded_chunks_[pos]), ret |-> store.loaded_chunks_[pos]]
    ELSE [store |-> store, ret |-> NullChunk]

\* load_chunk without the test of pending_chunks_: every call for a
\* coordinate that is not loaded submits a job.
load_chunk_unchecked(store, tasks, pos) ==
    IF pos \in DOMAIN store.loaded_chunks_
    THEN [store |-> touch(store, store.loaded_chunks_[pos]), pool |-> tasks,
          ret |-> store.loaded_chunks_[pos]]
    ELSE [store |-> [store EXCEPT !.pending_chunks_ = @ \cup {pos}],
          pool |-> tasks \cup {[name |-> "generate", pos |-> pos, chunk |-> NullChunk]},
          ret |-> NullChunk]

\* ChunkManager::load_chunk: the store and the pool after the call and the
\* pointer returned.
load_chunk(store, tasks, pos) ==
    IF pos \in DOMAIN store.loaded_chunks_
    THEN [store |-> touch(store, store.loaded_chunks_[pos]), pool |-> tasks,
          ret |-> store.loaded_chunks_[pos]]
    ELSE IF pos \in store.pending_chunks_
    THEN [store |-> store, pool |-> tasks, ret |-> NullChunk]
    ELSE [store |-> [store EXCEPT !.pending_chunks_ = @ \cup {pos}],
          pool |-> tasks \cup {[name |-> "generate", pos |-> pos, chunk |-> NullChunk]},
          ret |-> NullChunk]

\* ChunkManager::unload_chunk: the chunk leaves the map; for a dirty chunk a
\* task is submitted that holds the pointer and has an empty body.
unload_chunk(store, tasks, pos) ==
    IF pos \notin DOMAIN store.loaded_chunks_
    THEN [store |-> store, pool |-> tasks]
    ELSE LET chunk_to_save == store.loaded_chunks_[pos]
             erased == [store EXCEPT !.loaded_chunks_ = Erase(@, pos)]
         IN  IF store.heap[chunk_to_save].dirty_
             THEN [store |-> erased,
                   pool |-> tasks \cup {[name |-> "unload", pos |-> pos, chunk |-> chunk_to_save]}]
             ELSE [store |-> erased, pool |-> tasks]

\* ChunkManager::get_block
get_block(store, p) ==
    IF ChunkPosOf(p) \in DOMAIN store.loaded_chunks_
    THEN Chunk_get_block(store.heap[store.loaded_chunks_[ChunkPosOf(p)]], p.x % 16, p.y, p.z % 16)
    ELSE AIR

\* The chunks cleanup_old_chunks collects: none unless the map holds more
\* than max_loaded_chunks_, else those not accessed for chunk_timeout_ms_.
to_unload(store) ==
    IF Cardinality(DOMAIN store.loaded_chunks_) <= MaxLoaded THEN {}
    ELSE {pos \in DOMAIN store.loaded_chunks_ :
             (now - store.heap[store.loaded_chunks_[pos]].last_access_) * chunk_timeout_ms_
                 > chunk_timeout_ms_}

\* unload_chunk for each collected position (the calls are independent).
RECURSIVE unload_all(_, _, _)
unload_all(store, tasks, set) ==
    IF set = {} THEN [store |-> store, pool |-> tasks]
    ELSE LET pos == CHOOSE c \in set : TRUE
             one == unload_chunk(store, tasks, pos)
         IN  unload_all(one.store, one.pool, set \ {pos})

\* The dirty chunks a call of unload_chunk takes out of the map.
DirtyLeaving(store, set) ==
    {store.loaded_chunks_[pos] : pos \in {c \in set \cap DOMAIN store.loaded_chunks_ :
                                              store.heap[store.loaded_chunks_[c]].dirty_}}

Called == hist' = [hist EXCEPT !.calls = @ + 1]

\* A thread calls load_chunk(pos).
LoadChunk(t) ==
    /\ t \in ChunkCallers /\ AtPc(t, "idle") /\ hist.calls < MaxOps
    /\ \E pos \in ChunkCoords :
          LET r == load_chunk(chunks, pool, pos)
          IN  chunks' = r.store /\ pool' = r.pool
    /\ Called
    /\ UNCHANGED <<conn, sock, now, build, thr, players, disk, workers, view>>

\* A thread calls unload_chunk(pos).
UnloadChunk(t) ==
    /\ t \in ChunkCallers /\ AtPc(t, "idle") /\ hist.calls < MaxOps
    /\ \E pos \in ChunkCoords :
          LET r == unload_chunk(chunks, pool, pos)
          IN  /\ chunks' = r.store /\ pool' = r.pool
              /\ hist' = [hist EXCEPT !.calls = @ + 1,
                                      !.unloaded_dirty = @ \cup DirtyLeaving(chunks, {pos}),
                                      !.auto_set = [q \in DOMAIN @ \ {q \in DOMAIN @ : ChunkPosOf(q) = pos} |-> @[q]]]
    /\ UNCHANGED <<conn, sock, now, build, thr, players, disk, workers, view>>

\* ChunkManager::set_block, first statement: get_chunk(chunk_pos).
SetBlockGet(t) ==
    /\ t \in ChunkCallers /\ AtPc(t, "idle") /\ hist.calls < MaxOps
    /\ \E p \in Positions, block \in PlacedBlocks :
          LET r == get_chunk(chunks, ChunkPosOf(p))
          IN  /\ chunks' = r.store
              /\ thr' = [thr EXCEPT ![t] = [pc |-> IF r.ret = NullChunk THEN "set_block_load"
                                                   ELSE "set_block_write",
                                            pos |-> ChunkPosOf(p), chunk |-> r.ret,
                                            p |-> p, block |-> block]]
    /\ Called
    /\ UNCHANGED <<conn, sock, pool, now, build, players, disk, workers, view>>

\* ChunkManager::set_block on a chunk that was not found: load_chunk, and
\* return when that yields no chunk.
SetBlockLoad(t) ==
    /\ AtPc(t, "set_block_load")
    /\ LET r == load_chunk(chunks, pool, thr[t].pos)
       IN  /\ chunks' = r.store /\ pool' = r.pool
           /\ IF r.ret = NullChunk
              THEN /\ thr' = [thr EXCEPT ![t] = ThreadIdle]
                   /\ hist' = [hist EXCEPT !.auto_set = Put(@, thr[t].p, thr[t].block)]
              ELSE /\ thr' = [thr EXCEPT ![t].pc = "set_block_write", ![t].chunk = r.ret]
                   /\ UNCHANGED hist
    /\ UNCHANGED <<conn, sock, now, build, players, disk, workers, view>>

\* ChunkManager::set_block, last statement: chunk->set_block(...).
SetBlockWrite(t) ==
    /\ AtPc(t, "set_block_write")
    /\ chunks.heap[thr[t].chunk].sections_mutex_ = "free"
    /\ chunks' = [chunks EXCEPT !.heap[thr[t].chunk] =
                     Chunk_set_block(@, thr[t].p.x % 16, thr[t].p.y, thr[t].p.z % 16,
                                     thr[t].block, now)]
    /\ thr' = [thr EXCEPT ![t] = ThreadIdle]
    /\ hist' = [hist EXCEPT !.auto_set =
                   IF thr[t].p \in DOMAIN @ THEN Put(@, thr[t].p, thr[t].block) ELSE @]
    /\ UNCHANGED <<conn, sock, pool, now, build, players, disk, workers, view>>

\* A lock a thread takes while it holds another: which locks, of which object.
Nested(held, held_of, wanted, wanted_of) ==
    [held |-> held, held_of |-> held_of, wanted |-> wanted, wanted_of |-> wanted_of]

\* A pool worker takes a generation job: make_shared<Chunk>(pos), then
\* generate_flat_world takes the chunk's sections_mutex_.
GenerateStart(w) ==
    /\ w \in PoolWorkers /\ AtPc(w, "idle")
    /\ \E task \in pool :
          /\ task.name = "generate"
          /\ pool' = pool \ {task}
          /\ chunks' = [chunks EXCEPT !.heap =
                           Append(@, [NewChunk(task.pos, now) EXCEPT !.sections_mutex_ = w])]
          /\ thr' = [thr EXCEPT ![w] = [ThreadIdle EXCEPT !.pc = "generate_locked",
                                                          !.pos = task.pos,
                                                          !.chunk = Len(chunks.heap) + 1]]
    /\ UNCHANGED <<conn, sock, now, build, hist, players, disk, workers, view>>

\* generate_flat_world calls set_block, which locks sections_mutex_ again
\* on the thread that holds it. When the thread hangs the job never ends;
\* when the lock throws, the exception ends the job inside its
\* packaged_task; when the lock is granted the loops run to their end.
GenerateSetBlock(w) ==
    /\ AtPc(w, "generate_locked")
    /\ hist' = [hist EXCEPT !.nested = @ \cup
                   {Nested("sections_mutex_", thr[w].chunk, "sections_mutex_", thr[w].chunk)}]
    /\ \E outcome \in RelockOutcomes :
          CASE outcome = "blocks" ->
                  /\ Jump(w, "blocked")
                  /\ UNCHANGED chunks
            [] outcome = "throws" ->
                  /\ thr' = [thr EXCEPT ![w] = ThreadIdle]
                  /\ chunks' = [chunks EXCEPT !.heap[thr[w].chunk].sections_mutex_ = "free"]
            [] outcome = "proceeds" ->
                  /\ Jump(w, "generate_insert")
                  /\ chunks' = [chunks EXCEPT !.heap[thr[w].chunk] =
                                   [generate_flat_world(@, now) EXCEPT !.sections_mutex_ = "free"]]
    /\ UNCHANGED <<conn, sock, pool, now, build, players, disk, workers, view>>

\* The job, after generation: loaded_chunks_[pos] = chunk and
\* pending_chunks_.erase(pos) under chunk_mutex_.
GenerateInsert(w) ==
    /\ AtPc(w, "generate_insert")
    /\ chunks' = [chunks EXCEPT !.loaded_chunks_ = Put(@, thr[w].pos, thr[w].chunk),
                                !.pending_chunks_ = @ \ {thr[w].pos}]
    /\ Jump(w, "cleanup_old_chunks")
    /\ UNCHANGED <<conn, sock, pool, now, build, hist, players, disk, workers, view>>

\* The job's last statement: cleanup_old_chunks.
CleanupOldChunks(w) ==
    /\ AtPc(w, "cleanup_old_chunks")
    /\ LET set == to_unload(chunks)
           r == unload_all(chunks, pool, set)
       IN  /\ chunks' = r.store /\ pool' = r.pool
           /\ hist' = [hist EXCEPT
                          !.unloaded_dirty = @ \cup DirtyLeaving(chunks, set),
                          !.auto_set = [q \in DOMAIN @ \ {q \in DOMAIN @ : ChunkPosOf(q) \in set} |-> @[q]]]
    /\ thr' = [thr EXCEPT ![w] = ThreadIdle]
    /\ UNCHANGED <<conn, sock, now, build, players, disk, workers, view>>

\* A pool worker runs the task unload_chunk submitted: its body is empty,
\* and with the task the last pointer to the chunk goes.
UnloadTask(w) ==
    /\ w \in PoolWorkers /\ AtPc(w, "idle")
    /\ \E task \in pool :
          /\ task.name = "unload"
          /\ pool' = pool \ {task}
          /\ hist' = [hist EXCEPT !.dropped = @ \cup
                         {[chunk |-> task.chunk, sections_ |-> chunks.heap[task.chunk].sections_]}]
    /\ UNCHANGED <<conn, sock, now, build, thr, players, chunks, disk, workers, view>>

\* MinecraftServer::tick_world: save_chunk of a loaded dirty chunk; the
\* sections it serializes are recorded, and the chunk is marked clean.
TickWorldSave ==
    /\ AtPc("tick", "idle") /\ hist.calls < MaxOps
    /\ \E pos \in DOMAIN chunks.loaded_chunks_ :
          LET id == chunks.loaded_chunks_[pos]
          IN  /\ chunks.heap[id].dirty_
              /\ chunks.heap[id].sections_mutex_ = "free"
              /\ chunks' = [chunks EXCEPT !.heap[id].dirty_ = FALSE]
              /\ hist' = [hist EXCEPT !.calls = @ + 1,
                                      !.persisted = Put(@, id, chunks.heap[id].sections_),
                                      !.nested = @ \cup {Nested("save_mutex_", 0, "sections_mutex_", id)}]
    /\ UNCHANGED <<conn, sock, pool, now, build, thr, players, disk, workers, view>>

\* steady_clock moves on by chunk_timeout_ms_ (the unit of now here).
TickChunks ==
    /\ now < MaxTime
    /\ now' = now + 1
    /\ UNCHANGED <<conn, sock, pool, build, hist, thr, players, chunks, disk, workers, view>>

InitChunks ==
    /\ conn = <<>> /\ sock = <<>> /\ players = <<>>
    /\ disk = <<>> /\ workers = <<>> /\ view = <<>>
    /\ pool = {}
    /\ now = 0
    /\ build = "chunk.hpp"
    /\ thr = [t \in ChunkThreads |-> ThreadIdle]
    /\ chunks = [heap |-> <<>>, loaded_chunks_ |-> NoMap, pending_chunks_ |-> {}]
    /\ hist = [calls |-> 0, nested |-> {}, unloaded_dirty |-> {}, dropped |-> {},
               persisted |-> NoMap, auto_set |-> NoMap]

NextChunks ==
    \/ \E t \in ChunkCallers : LoadChunk(t)
    \/ \E t \in ChunkCallers : UnloadChunk(t)
    \/ \E t \in ChunkCallers : SetBlockGet(t)
    \/ \E t \in ChunkCallers : SetBlockLoad(t)
    \/ \E t \in ChunkCallers : SetBlockWrite(t)
    \/ \E w \in PoolWorkers : GenerateStart(w)
    \/ \E w \in PoolWorkers : GenerateSetBlock(w)
    \/ \E w \in PoolWorkers : GenerateInsert(w)
    \/ \E w \in PoolWorkers : CleanupOldChunks(w)
    \/ \E w \in PoolWorkers : UnloadTask(w)
    \/ TickWorldSave
    \/ TickChunks

SpecChunks == InitChunks /\ [][NextChunks]_vars

\* The pool workers keep running: a worker that can take or continue a job
\* does so. The callers are under no obligation to call.
WorkerStep(w) ==
    GenerateStart(w) \/ GenerateSetBlock(w) \/ GenerateInsert(w) \/ CleanupOldChunks(w)
        \/ UnloadTask(w)

SpecChunksLive == SpecChunks /\ \A w \in PoolWorkers : WF_vars(WorkerStep(w))

\* C11: a coordinate that load_chunk marked pending is eventually in the
\* loaded map and out of the pending set, so that get finds the chunk.
C11_GenerationCompletes ==
    \A pos \in ChunkCoords :
        (pos \in chunks.pending_chunks_)
            ~> (pos \in DOMAIN chunks.loaded_chunks_ /\ pos \notin chunks.pending_chunks_)

\* C13: a dirty chunk that unload took out of the loaded map has been
\* persisted, with the contents it has when it is dropped, before the drop.
C13_PersistBeforeDrop ==
    \A d \in hist.dropped :
        /\ d.chunk \in DOMAIN hist.persisted
        /\ hist.persisted[d.chunk] = d.sections_

\* C15: a block that set_block was given for a position whose chunk was
\* not loaded is the block get_block returns once the chunk is loaded.
C15_AutoLoadKeepsWrite ==
    \A p \in DOMAIN hist.auto_set :
        ChunkPosOf(p) \in DOMAIN chunks.loaded_chunks_ => get_block(chunks, p) = hist.auto_set[p]

\* The place of a lock in the order acceptor set, player registry, chunk
\* store membership, chunk lock; 0 for a lock outside the order.
LockRank(lock) ==
    CASE lock = "connections_mutex_" -> 1
      [] lock = "players_mutex_" -> 2
      [] lock = "chunk_mutex_" -> 3
      [] lock = "sections_mutex_" -> 4
      [] OTHER -> 0

\* C18: a thread that holds one of the four locks acquires only a lock
\* later in the order, and never the lock it already holds.
C18_LockOrder ==
    \A n \in hist.nested :
        /\ ~(n.held = n.wanted /\ n.held_of = n.wanted_of)
        /\ (LockRank(n.held) > 0 /\ LockRank(n.wanted) > 0) => LockRank(n.held) < LockRank(n.wanted)

-----------------------------------------------------------------------------
(* world/world_persistence.hpp : WorldPersistence                          *)
(*                                                                         *)
(* The region file is a sequence of sectors of SectorBytes bytes; its      *)
(* header (the location and timestamp tables) fills the first              *)
(* HeaderSectors of them. One chunk, at ChunkPos (0, 0), is saved and      *)
(* loaded; disk.location is its entry of RegionFile::locations.            *)

SectorBytes == 128
HeaderSectors == 2
MaxWrites == 2
MaxSaves == 2
MaxLoads == 2

\* static_cast<u32>(tellp()) / 4096 when tellp() is -1.
FailedTell == 1048575

\* What an uninitialized u32 can hold when the header read fails.
UninitLocations == {0, 257}

RECURSIVE Join(_)
Join(seqs) == IF seqs = <<>> THEN <<>> ELSE Head(seqs) \o Join(Tail(seqs))

\* serialize_chunk, one section: the flag byte, block_count, the block ids
\* in index order, block_light, sky_light.
serialize_section(s) ==
    IF ~s.present THEN <<0>>
    ELSE <<1>> \o write_be16(s.block_count)
             \o Join([k \in 1..BLOCKS_PER_SECTION |->
                        LET i == k - 1
                            y == (i \div 256) % 16
                            z == (i \div 16) % 16
                            x == i % 16
                        IN  write_be16(ChunkSection_get_block(s, x, y, z))])
             \o s.block_light \o s.sky_light

\* WorldPersistence::serialize_chunk over the section pointers get_sections
\* returned: `seen` holds the indexes whose pointer was not null.
serialize_chunk(ch, seen) ==
    write_be32(SECTIONS_PER_CHUNK)
        \o Join([k \in 1..SECTIONS_PER_CHUNK |->
                   IF (k - 1) \in seen THEN serialize_section(ch.sections_[k - 1]) ELSE <<0>>])

\* One pass of the loop of deserialize_chunk over a section: the bytes are
\* read into a local ChunkSection, which is destroyed at the end of the
\* pass; the result is the read position, or what was thrown.
deserialize_section(data, pos) ==
    LET has_section == read_byte(data, pos)
    IN  IF ~has_section.ok THEN has_section
        ELSE IF has_section.val = 0 THEN Got(0, has_section.pos)
        ELSE LET block_count == read_be16(data, has_section.pos)
             IN  IF ~block_count.ok THEN block_count
                 ELSE IF block_count.pos + 2 * BLOCKS_PER_SECTION > Len(data)
                 THEN Thrown("Buffer underflow", Len(data))
                 ELSE LET ids == block_count.pos + 2 * BLOCKS_PER_SECTION
                          block_light == read(data, ids, LightBytes)
                          sky_light == read(data, block_light.pos, LightBytes)
                      IN  Got(1, sky_light.pos)

RECURSIVE deserialize_sections(_, _, _, _)
deserialize_sections(data, pos, s, section_count) ==
    IF s >= section_count THEN Got(0, pos)
    ELSE LET one == deserialize_section(data, pos)
         IN  IF ~one.ok THEN one ELSE deserialize_sections(data, one.pos, s + 1, section_count)

\* WorldPersistence::deserialize_chunk: the chunk returned, or NullChunk
\* when a read threw (load_chunk catches it). No section is ever put into
\* the chunk.
deserialize_chunk(pos, data, t) ==
    LET hi == read_be16(data, 0)
        lo == read_be16(data, 2)
    IN  IF ~hi.ok \/ ~lo.ok THEN [ok |-> FALSE, chunk |-> NewChunk(pos, t)]
        ELSE LET section_count == IF hi.val >= 32768 THEN 0 - 1 ELSE hi.val * 65536 + lo.val
                 done == deserialize_sections(data, 4, 0, section_count)
             IN  [ok |-> done.ok,
                  chunk |-> [NewChunk(pos, t) EXCEPT !.loaded_ = TRUE, !.dirty_ = FALSE]]

DataSector(bytes) == [kind |-> "data", bytes |-> bytes]

HeaderSector(location) == [kind |-> "header", bytes |-> Zeros(SectorBytes), location |-> location]

\* The bytes of chunk_data and its padding, cut into sectors.
Sectors(bytes) ==
    LET count == (Len(bytes) + SectorBytes - 1) \div SectorBytes
        padded == bytes \o Zeros(count * SectorBytes - Len(bytes))
    IN  [k \in 1..count |-> SubSeq(padded, (k - 1) * SectorBytes + 1, k * SectorBytes)]

\* get_region_file: the first call opens the file and load_region_header
\* reads the tables. On a file shorter than the header the reads fail: the
\* stream keeps its failbit, and the entries are whatever the
\* uninitialized locals held.
get_region_file(d, uninit) ==
    IF d.opened THEN d
    ELSE IF Len(d.file) >= HeaderSectors
    THEN [d EXCEPT !.opened = TRUE, !.good = TRUE, !.location = d.file[1].location]
    ELSE [d EXCEPT !.opened = TRUE, !.good = FALSE, !.location = uninit]

\* save_region_header: seekp(0) and the two tables, on a good stream.
save_region_header(d) ==
    IF ~d.good THEN d
    ELSE [d EXCEPT !.file =
             [k \in 1..(IF Len(@) > HeaderSectors THEN Len(@) ELSE HeaderSectors) |->
                 IF k <= HeaderSectors THEN HeaderSector(d.location) ELSE @[k]]]

\* save_chunk from seekp(0, end) to save_region_header: on a stream with
\* failbit set tellp() is -1 and no write reaches the file.
write_chunk(d, chunk_data) ==
    LET sector_offset == IF d.good THEN Len(d.file) ELSE FailedTell
        sector_count == (Len(chunk_data) + SectorBytes - 1) \div SectorBytes
        written == IF d.good
                   THEN d.file \o [k \in 1..sector_count |-> DataSector(Sectors(chunk_data)[k])]
                   ELSE d.file
    IN  save_region_header([d EXCEPT !.file = written,
                                     !.location = (sector_offset % 16777216) * 256
                                                      + (sector_count % 256),
                                     !.dirty = TRUE])

\* load_chunk from seekg to read: the vector is zero-filled, and holds
\* the sectors the read could get.
read_sectors(d, sector_offset, sector_count) ==
    Join([k \in 1..sector_count |->
             IF d.good /\ sector_offset + k <= Len(d.file)
             THEN d.file[sector_offset + k].bytes
             ELSE Zeros(SectorBytes)])

\* WorldPersistence::load_chunk: the disk after the call and the chunk
\* returned (ok is FALSE for nullptr).
persistence_load_chunk(d0, pos, uninit, t) ==
    LET d == get_region_file(d0, uninit)
        sector_offset == (d.location \div 256) % 16777216
        sector_count == d.location % 256
        short == d.good /\ sector_offset + sector_count > Len(d.file)
    IN  IF d.location = 0 \/ sector_offset = 0 \/ sector_count = 0
        THEN [disk |-> d, ok |-> FALSE, chunk |-> NewChunk(pos, t)]
        ELSE LET r == deserialize_chunk(pos, read_sectors(d, sector_offset, sector_count), t)
             IN  [disk |-> [d EXCEPT !.good = d.good /\ ~short], ok |-> r.ok, chunk |-> r.chunk]

SavedPos == <<0, 0>>
SavedChunk == 1

WrittenCells == {[x |-> 1, y |-> 64, z |-> 0], [x |-> 1, y |-> 80, z |-> 0]}
WrittenLight == 7

\* Chunk::get_sections: the indexes of the sections that exist.
get_sections(ch) == {i \in DOMAIN ch.sections_ : ch.sections_[i].present}

SaverIdle == [pc |-> "idle", seen |-> {}, chunk_data |-> <<>>]

\* save_chunk up to get_region_file: a dirty chunk, save_mutex_ taken.
SaveCheck ==
    /\ thr.pc = "idle" /\ hist.saves < MaxSaves
    /\ chunks.heap[SavedChunk].dirty_
    /\ \E uninit \in UninitLocations : disk' = get_region_file(disk, uninit)
    /\ thr' = [thr EXCEPT !.pc = "get_sections"]
    /\ UNCHANGED <<conn, sock, pool, now, build, hist, players, chunks, workers, view>>

\* serialize_chunk, first statement: chunk->get_sections().
SaveGetSections ==
    /\ thr.pc = "get_sections"
    /\ thr' = [thr EXCEPT !.pc = "serialize", !.seen = get_sections(chunks.heap[SavedChunk])]
    /\ UNCHANGED <<conn, sock, pool, now, build, hist, players, chunks, disk, workers, view>>

\* serialize_chunk, the loop: the sections are read without the chunk's lock.
SaveSerialize ==
    /\ thr.pc = "serialize"
    /\ thr' = [thr EXCEPT !.pc = "write",
                          !.chunk_data = serialize_chunk(chunks.heap[SavedChunk], thr.seen)]
    /\ hist' = [hist EXCEPT !.snapshot =
                   [chunks.heap[SavedChunk] EXCEPT !.sections_ =
                       [i \in DOMAIN @ |-> IF i \in thr.seen THEN @[i] ELSE NoSection]]]
    /\ UNCHANGED <<conn, sock, pool, now, build, players, chunks, disk, workers, view>>

\* save_chunk from the file write to the return: set_dirty(false), true.
SaveWrite ==
    /\ thr.pc = "write"
    /\ disk' = write_chunk(disk, thr.chunk_data)
    /\ chunks' = [chunks EXCEPT !.heap[SavedChunk].dirty_ = FALSE]
    /\ hist' = [hist EXCEPT !.saves = @ + 1, !.persisted = thr.chunk_data]
    /\ thr' = SaverIdle
    /\ UNCHANGED <<conn, sock, pool, now, build, players, workers, view>>

\* Another thread calls Chunk::set_block on the chunk.
WriteBlock ==
    /\ hist.writes < MaxWrites
    /\ \E c \in WrittenCells :
          chunks' = [chunks EXCEPT !.heap[SavedChunk] =
                        Chunk_set_block(@, c.x, c.y, c.z, COBBLESTONE, now)]
    /\ hist' = [hist EXCEPT !.writes = @ + 1]
    /\ UNCHANGED <<conn, sock, pool, now, build, thr, players, disk, workers, view>>

\* Another thread calls Chunk::set_block_light on the chunk.
WriteBlockLight ==
    /\ hist.writes < MaxWrites
    /\ \E c \in WrittenCells :
          chunks' = [chunks EXCEPT !.heap[SavedChunk] =
                        Chunk_set_block_light(@, c.x, c.y, c.z, WrittenLight)]
    /\ hist' = [hist EXCEPT !.writes = @ + 1]
    /\ UNCHANGED <<conn, sock, pool, now, build, thr, players, disk, workers, view>>

\* Another thread calls Chunk::set_sky_light on the chunk.
WriteSkyLight ==
    /\ hist.writes < MaxWrites
    /\ \E c \in WrittenCells :
          chunks' = [chunks EXCEPT !.heap[SavedChunk] =
                        Chunk_set_sky_light(@, c.x, c.y, c.z, WrittenLight)]
    /\ hist' = [hist EXCEPT !.writes = @ + 1]
    /\ UNCHANGED <<conn, sock, pool, now, build, thr, players, disk, workers, view>>

\* A thread calls WorldPersistence::load_chunk for the coordinate; the call
\* holds save_mutex_ throughout.
PersistLoad ==
    /\ thr.pc = "idle" /\ hist.loads < MaxLoads
    /\ \E uninit \in UninitLocations :
          LET r == persistence_load_chunk(disk, SavedPos, uninit, now)
          IN  /\ disk' = r.disk
              /\ hist' = [hist EXCEPT !.loads = @ + 1,
                             !.loaded = [after_save |-> hist.saves > 0, ok |-> r.ok,
                                         chunk |-> r.chunk, saved |-> hist.snapshot]]
    /\ UNCHANGED <<conn, sock, pool, now, build, thr, players, chunks, workers, view>>

\* The region file when the server starts: just created (empty), or one
\* that holds its header.
RegionFiles == {<<>>, [k \in 1..HeaderSectors |-> HeaderSector(0)]}

InitPersist ==
    /\ conn = <<>> /\ sock = <<>> /\ players = <<>> /\ workers = <<>> /\ view = <<>>
    /\ pool = {}
    /\ now = 0
    /\ build = "world_persistence.hpp"
    /\ thr = SaverIdle
    /\ chunks = [heap |-> <<generate_flat_world(NewChunk(SavedPos, 0), 0)>>,
                 loaded_chunks_ |-> Put(NoMap, SavedPos, SavedChunk),
                 pending_chunks_ |-> {}]
    /\ \E file \in RegionFiles :
          disk = [file |-> file, opened |-> FALSE, good |-> TRUE, location |-> 0,
                  dirty |-> FALSE]
    /\ hist = [saves |-> 0, writes |-> 0, loads |-> 0, persisted |-> <<>>,
               snapshot |-> NewChunk(SavedPos, 0),
               loaded |-> [after_save |-> FALSE, ok |-> FALSE,
                           chunk |-> NewChunk(SavedPos, 0), saved |-> NewChunk(SavedPos, 0)]]

NextPersist ==
    \/ SaveCheck
    \/ SaveGetSections
    \/ SaveSerialize
    \/ SaveWrite
    \/ WriteBlock
    \/ WriteBlockLight
    \/ WriteSkyLight
    \/ PersistLoad

SpecPersist == InitPersist /\ [][NextPersist]_vars

\* C12: a chunk that is not dirty has all its current block and light
\* contents in the bytes of its most recent persist.
C12_CleanMeansPersisted ==
    (hist.saves > 0 /\ ~chunks.heap[SavedChunk].dirty_)
        => hist.persisted = serialize_chunk(chunks.heap[SavedChunk],
                                            get_sections(chunks.heap[SavedChunk]))

Heights == {WORLD_MIN_Y + 16 * i : i \in 0..(SECTIONS_PER_CHUNK - 1)}

SameCells(a, b) ==
    \A x \in 0..(SectionCells - 1), y \in Heights :
        /\ Chunk_get_block(a, x, y, 0) = Chunk_get_block(b, x, y, 0)
        /\ Chunk_get_block_light(a, x, y, 0) = Chunk_get_block_light(b, x, y, 0)
        /\ Chunk_get_sky_light(a, x, y, 0) = Chunk_get_sky_light(b, x, y, 0)

\* C14: load_chunk after a save_chunk of the coordinate returns a chunk
\* whose block ids, block light and sky light are those of the saved chunk.
C14_SaveLoadRoundTrip ==
    hist.loaded.after_save => (hist.loaded.ok /\ SameCells(hist.loaded.chunk, hist.loaded.saved))

-----------------------------------------------------------------------------
(* entity/entity.hpp Player (the chunks in view), the PlayerPosition        *)
(* handler of complete_integration.cpp, and the tick thread's               *)
(* update_loaded_chunks. view is the player; chunks is the ChunkManager     *)
(* reduced to the coordinates that are loaded and those that are pending;   *)
(* pool is the set of generation jobs submitted; conn is the sequence of    *)
(* packets the last handler gave to send_packet.                            *)

MaxMoves == 3

MIN_VIEW_DISTANCE == 2
MAX_VIEW_DISTANCE == 32
DEFAULT_VIEW_DISTANCE == 10

\* Builds differ in the definition of Player::update_loaded_chunks.
ViewBuilds == {"entity.hpp", "fixes_and_integration.hpp"}

\* Coordinates a PlayerPosition packet carries, in half blocks (x and z;
\* y plays no part): (-16.5, 0), (-0.5, 0), (16, 0), (16, 16).
Locations ==
    {[x |-> 0 - 33, z |-> 0], [x |-> 0 - 1, z |-> 0], [x |-> 32, z |-> 0], [x |-> 32, z |-> 32]}

\* Arguments of set_view_distance.
Distances == {1, 3}

\* Location::toChunkPos: static_cast<i32> truncates, >> 4 floors.
toChunkPos(location) == <<TruncDiv(location.x, 2) \div 16, TruncDiv(location.z, 2) \div 16>>

\* Player::get_chunk_pos
get_chunk_pos(player) == toChunkPos(player.location_)

\* std::clamp(distance, 2, 32)
clamp(v, lo, hi) == IF v < lo THEN lo ELSE IF hi < v THEN hi ELSE v

\* Player::set_view_distance
set_view_distance(player, distance) ==
    [player EXCEPT !.view_distance_ = clamp(distance, MIN_VIEW_DISTANCE, MAX_VIEW_DISTANCE)]

\* Player::set_location
set_location(player, location) == [player EXCEPT !.location_ = location]

\* The (dx, dz) of the two nested loops from -r to r, in loop order.
Offsets(r) ==
    [k \in 1..((2 * r + 1) * (2 * r + 1)) |->
        <<((k - 1) \div (2 * r + 1)) - r, ((k - 1) % (2 * r + 1)) - r>>]

InDisc(d, r) == d[1] * d[1] + d[2] * d[2] <= r * r

\* The coordinates around a centre the loops visit and keep, in loop order.
Around(centre, r) ==
    LET kept == SelectSeq(Offsets(r), LAMBDA d : InDisc(d, r))
    IN  [k \in 1..Len(kept) |-> <<centre[1] + kept[k][1], centre[2] + kept[k][2]>>]

Range(seq) == {seq[k] : k \in 1..Len(seq)}

\* update_loaded_chunks: needed_chunks
needed_chunks(player_chunk, view_distance) == Range(Around(player_chunk, view_distance))

\* All coordinates a player of the model can have in view, in one order:
\* the order in which an unordered_set of them is iterated (the standard
\* leaves it open; nothing stated below depends on it).
GridMax == 1 + DEFAULT_VIEW_DISTANCE
Grid == [k \in 1..Len(Offsets(GridMax)) |-> Offsets(GridMax)[k]]
Iterate(set) == SelectSeq(Grid, LAMBDA c : c \in set)

ChunkPacket(id, c) == [id |-> id, x |-> c[1], z |-> c[2]]
UnloadChunkPacket(c) == ChunkPacket("UnloadChunk", c)
ChunkDataPacket(c) == ChunkPacket("ChunkData", c)
UpdateViewPositionPacket(c) == ChunkPacket("UpdateViewPosition", c)

\* send_packet of one kind of packet for each coordinate of a sequence
Packets(seq, id) == [k \in 1..Len(seq) |-> ChunkPacket(id, seq[k])]

\* ChunkManager::load_chunk for each coordinate of a set: a coordinate
\* neither loaded nor pending becomes pending and gets a generation job.
load_chunks(store, tasks, set) ==
    LET fresh == {c \in set : c \notin store.loaded_chunks_ /\ c \notin store.pending_chunks_}
    IN  [store |-> [store EXCEPT !.pending_chunks_ = @ \cup fresh],
         pool |-> tasks \cup {[name |-> "generate", pos |-> c, chunk |-> NullChunk] : c \in fresh}]

erase_nothing(loaded, needed) == loaded

\* update_loaded_chunks, first loop: what is not needed is erased.
erase_unneeded(loaded, needed) == loaded \cap needed

\* Player::update_loaded_chunks: the player, the ChunkManager and the pool
\* after the call, and the packets the call sent.
update_loaded_chunks(player, store, tasks, bld) ==
    LET needed == needed_chunks(get_chunk_pos(player), player.view_distance_)
        unloaded == player.loaded_chunks_ \ erase_unneeded(player.loaded_chunks_, needed)
        kept == erase_unneeded(player.loaded_chunks_, needed)
        added == needed \ kept
        loaded == load_chunks(store, tasks, added)
    IN  [player |-> [player EXCEPT !.loaded_chunks_ = kept \cup added],
         store |-> loaded.store,
         pool |-> loaded.pool,
         sent |-> IF bld = "fixes_and_integration.hpp"
                  THEN Packets(Iterate(unloaded), "UnloadChunk")
                           \o Packets(Iterate(added \cap store.loaded_chunks_), "ChunkData")
                  ELSE <<>>]

\* Connection::send_chunk_updates: the ChunkManager and the pool after the
\* call, and the packets sent.
send_chunk_updates(player, store, tasks, old_chunk, new_chunk) ==
    LET view_distance == player.view_distance_
        was_loaded(c) == InDisc(<<c[1] - old_chunk[1], c[2] - old_chunk[2]>>, view_distance)
        should_be_loaded(c) == InDisc(<<c[1] - new_chunk[1], c[2] - new_chunk[2]>>, view_distance)
        entered == SelectSeq(Around(new_chunk, view_distance), LAMBDA c : ~was_loaded(c))
        left == SelectSeq(Around(old_chunk, view_distance), LAMBDA c : ~should_be_loaded(c))
        loaded == load_chunks(store, tasks, Range(entered))
    IN  [store |-> loaded.store,
         pool |-> loaded.pool,
         sent |-> Packets(SelectSeq(entered, LAMBDA c : c \in store.loaded_chunks_), "ChunkData")
                      \o Packets(left, "UnloadChunk")]

\* Connection::handle_play_packet for a PlayerPosition packet.
PlayerPosition ==
    /\ hist.ops < MaxMoves
    /\ \E location \in Locations :
          LET old_chunk == get_chunk_pos(view)
              moved == set_location(view, location)
              new_chunk == get_chunk_pos(moved)
              updated == update_loaded_chunks(moved, chunks, pool, build)
              updates == send_chunk_updates(updated.player, updated.store, updated.pool,
                                            old_chunk, new_chunk)
          IN  IF old_chunk = new_chunk
              THEN /\ view' = moved
                   /\ conn' = <<>>
                   /\ hist' = [hist EXCEPT !.ops = @ + 1]
                   /\ UNCHANGED <<chunks, pool>>
              ELSE /\ view' = updated.player
                   /\ chunks' = updates.store
                   /\ pool' = updates.pool
                   /\ conn' = updated.sent \o <<UpdateViewPositionPacket(new_chunk)>> \o updates.sent
                   /\ hist' = [hist EXCEPT !.ops = @ + 1, !.updates = @ + 1,
                                  !.moved = [happened |-> TRUE, old_chunk |-> old_chunk,
                                             new_chunk |-> new_chunk,
                                             view_distance |-> view.view_distance_,
                                             sent |-> conn']]
    /\ UNCHANGED <<sock, now, build, thr, players, disk, workers>>

\* A thread calls set_view_distance on the player.
SetViewDistance ==
    /\ hist.ops < MaxMoves
    /\ \E distance \in Distances : view' = set_view_distance(view, distance)
    /\ conn' = <<>>
    /\ hist' = [hist EXCEPT !.ops = @ + 1]
    /\ UNCHANGED <<sock, pool, now, build, thr, players, chunks, disk, workers>>

\* MinecraftServer::tick_players for the player, who is online:
\* update_loaded_chunks.
TickPlayers ==
    /\ hist.ops < MaxMoves
    /\ LET updated == update_loaded_chunks(view, chunks, pool, build)
       IN  /\ view' = updated.player
           /\ chunks' = updated.store
           /\ pool' = updated.pool
           /\ conn' = updated.sent
    /\ hist' = [hist EXCEPT !.ops = @ + 1, !.updates = @ + 1]
    /\ UNCHANGED <<sock, now, build, thr, players, disk, workers>>

\* The chunks the ChunkManager holds when the player is constructed.
LoadedAtStart == {{}, {c \in Range(Grid) : c[2] >= 0}}

NoMove ==
    [happened |-> FALSE, old_chunk |-> <<0, 0>>, new_chunk |-> <<0, 0>>, view_distance |-> 0,
     sent |-> <<>>]

InitView ==
    /\ sock = <<>> /\ thr = <<>> /\ players = <<>> /\ disk = <<>> /\ workers = <<>>
    /\ now = 0
    /\ build \in ViewBuilds
    /\ conn = <<>>
    /\ pool = {}
    /\ view = [location_ |-> [x |-> 0, z |-> 0], view_distance_ |-> DEFAULT_VIEW_DISTANCE,
               loaded_chunks_ |-> {}]
    /\ \E loaded \in LoadedAtStart : chunks = [loaded_chunks_ |-> loaded, pending_chunks_ |-> {}]
    /\ hist = [ops |-> 0, updates |-> 0, moved |-> NoMove]

NextView ==
    \/ PlayerPosition
    \/ SetViewDistance
    \/ TickPlayers

SpecView == InitView /\ [][NextView]_vars

\* The disc of the specification: every coordinate within r of the centre.
Disc(centre, r) ==
    {c \in Range(Grid) :
        (c[1] - centre[1]) * (c[1] - centre[1]) + (c[2] - centre[2]) * (c[2] - centre[2]) <= r * r}

C17_MovePacketOrder ==
    hist.moved.happened =>
        LET sent == hist.moved.sent
            old == Disc(hist.moved.old_chunk, hist.moved.view_distance)
            new == Disc(hist.moved.new_chunk, hist.moved.view_distance)
            at(k) == <<sent[k].x, sent[k].z>>
        IN  /\ Len(sent) >= 1
            /\ sent[1] = UpdateViewPositionPacket(hist.moved.new_chunk)
            /\ \E last_data \in 1..Len(sent) :
                  /\ \A k \in 2..last_data : sent[k].id = "ChunkData" /\ at(k) \in new \ old
                  /\ \A k \in (last_data + 1)..Len(sent) : sent[k].id = "UnloadChunk"
                  /\ {at(k) : k \in (last_data + 1)..Len(sent)} = old \ new
                  /\ Len(sent) - last_data = Cardinality(old \ new)

-----------------------------------------------------------------------------
(* ThreadPool: workers is the vector of WorkerData with the position of     *)
(* each worker thread, pool holds next_worker_ and shutdown_, thr is the    *)
(* thread that calls shutdown(), hist records what submit accepted and      *)
(* what was run.                                                            *)

PoolSize == 2
MaxTasks == 3

WorkerIds == 0..(PoolSize - 1)
NoTask == [id |-> 0, long |-> FALSE]

\* The predicate of worker.cv.wait
wait_predicate(worker) == worker.queue # <<>> \/ worker.shutdown

\* cv.notify_one / notify_all on a worker: a thread blocked in wait goes
\* back to its predicate; with no thread blocked the call does nothing.
notify(worker) == IF worker.pc = "blocked" THEN [worker EXCEPT !.pc = "wait"] ELSE worker

\* worker_thread from the wait's return to the end of the loop body, when
\* the predicate holds: break, or take the front task and run it; with no
\* task in hand the worker would go on to steal from the queue of target.
after_wait(ws, w, target) ==
    IF ws[w].shutdown /\ ws[w].queue = <<>>
    THEN [ws EXCEPT ![w].pc = "exited"]
    ELSE LET task == IF ws[w].queue # <<>> THEN Head(ws[w].queue) ELSE NoTask
             taken == IF ws[w].queue # <<>> THEN [ws EXCEPT ![w].queue = Tail(@)] ELSE ws
         IN  IF task # NoTask
             THEN [taken EXCEPT ![w].pc = "run", ![w].task = task]
             ELSE IF target # w /\ taken[target].pc # "about_to_block" /\ taken[target].queue # <<>>
                  THEN [taken EXCEPT ![w].pc = "run", ![w].task = Head(taken[target].queue),
                                     ![target].queue = Tail(@)]
                  ELSE [taken EXCEPT ![w].pc = "top"]

\* submit: the worker is chosen round robin; under its mutex the task is
\* refused when worker.shutdown is set and queued otherwise; notify_one.
Submit ==
    /\ hist.submitted < MaxTasks
    /\ \E long \in BOOLEAN :
          LET worker_id == pool.next_worker_ % PoolSize
              task == [id |-> hist.submitted + 1, long |-> long]
          IN  /\ workers[worker_id].pc # "about_to_block"
              /\ pool' = [pool EXCEPT !.next_worker_ = @ + 1]
              /\ IF workers[worker_id].shutdown
                 THEN /\ hist' = [hist EXCEPT !.submitted = @ + 1]
                      /\ UNCHANGED workers
                 ELSE /\ workers' = [workers EXCEPT ![worker_id] =
                                        notify([@ EXCEPT !.queue = Append(@, task)])]
                      /\ hist' = [hist EXCEPT !.submitted = @ + 1,
                                     !.accepted = @ \cup {task.id},
                                     !.accepted_before = IF pool.shutdown_ THEN @
                                                         ELSE @ \cup {task.id}]
    /\ UNCHANGED <<conn, sock, now, build, thr, players, chunks, disk, view>>

\* while (!shutdown_.load())
WorkerTop(w) ==
    /\ workers[w].pc = "top"
    /\ workers' = [workers EXCEPT ![w].pc = IF pool.shutdown_ THEN "exited" ELSE "wait"]
    /\ UNCHANGED <<conn, sock, pool, now, build, hist, thr, players, chunks, disk, view>>

\* The worker evaluates the wait's predicate under its mutex; when it holds
\* the loop body goes on, when not the worker is about to block.
WorkerWait(w) ==
    /\ workers[w].pc = "wait"
    /\ IF wait_predicate(workers[w])
       THEN \E target \in WorkerIds : workers' = after_wait(workers, w, target)
       ELSE workers' = [workers EXCEPT ![w].pc = "about_to_block"]
    /\ UNCHANGED <<conn, sock, pool, now, build, hist, thr, players, chunks, disk, view>>

\* The wait releases the mutex and blocks.
WorkerBlock(w) ==
    /\ workers[w].pc = "about_to_block"
    /\ workers' = [workers EXCEPT ![w].pc = "blocked"]
    /\ UNCHANGED <<conn, sock, pool, now, build, hist, thr, players, chunks, disk, view>>

\* task() returns.
WorkerRun(w) ==
    /\ workers[w].pc = "run"
    /\ hist' = [hist EXCEPT !.executed = @ \cup {workers[w].task.id}]
    /\ workers' = [workers EXCEPT ![w].pc = "top", ![w].task = NoTask]
    /\ UNCHANGED <<conn, sock, pool, now, build, thr, players, chunks, disk, view>>

\* shutdown(): shutdown_.exchange(true)
ShutdownCall ==
    /\ thr.pc = "idle"
    /\ pool' = [pool EXCEPT !.shutdown_ = TRUE]
    /\ thr' = IF pool.shutdown_ THEN [thr EXCEPT !.pc = "done"]
              ELSE [thr EXCEPT !.pc = "store", !.worker = 0]
    /\ UNCHANGED <<conn, sock, now, build, hist, players, chunks, disk, workers, view>>

\* shutdown(), first loop: worker->shutdown.store(true) and notify_all,
\* without the worker's mutex.
ShutdownStore ==
    /\ thr.pc = "store"
    /\ workers' = [workers EXCEPT ![thr.worker] = notify([@ EXCEPT !.shutdown = TRUE])]
    /\ thr' = IF thr.worker + 1 = PoolSize THEN [thr EXCEPT !.pc = "join"]
              ELSE [thr EXCEPT !.worker = @ + 1]
    /\ UNCHANGED <<conn, sock, pool, now, build, hist, players, chunks, disk, view>>

\* shutdown(), second loop: every thread has been joined.
ShutdownJoin ==
    /\ thr.pc = "join"
    /\ \A w \in WorkerIds : workers[w].pc = "exited"
    /\ thr' = [thr EXCEPT !.pc = "done"]
    /\ UNCHANGED <<conn, sock, pool, now, build, hist, players, chunks, disk, workers, view>>

InitPool ==
    /\ conn = <<>> /\ sock = <<>> /\ players = <<>> /\ chunks = <<>> /\ disk = <<>> /\ view = <<>>
    /\ now = 0
    /\ build = "thread_pool"
    /\ pool = [next_worker_ |-> 0, shutdown_ |-> FALSE]
    /\ workers = [w \in WorkerIds |->
                     [queue |-> <<>>, shutdown |-> FALSE, pc |-> "top", task |-> NoTask]]
    /\ thr = [pc |-> "idle", worker |-> 0]
    /\ hist = [submitted |-> 0, accepted |-> {}, accepted_before |-> {}, executed |-> {}]

NextPool ==
    \/ Submit
    \/ \E w \in WorkerIds : WorkerTop(w)
    \/ \E w \in WorkerIds : WorkerWait(w)
    \/ \E w \in WorkerIds : WorkerBlock(w)
    \/ \E w \in WorkerIds : WorkerRun(w)
    \/ ShutdownCall
    \/ ShutdownStore
    \/ ShutdownJoin

SpecPool == InitPool /\ [][NextPool]_vars

\* A worker thread keeps running, and a task that is not long-running
\* returns; a long-running task need not.
PoolStep(w) ==
    \/ WorkerTop(w)
    \/ WorkerWait(w)
    \/ WorkerBlock(w)
    \/ (~workers[w].task.long /\ WorkerRun(w))

SpecPoolLive == SpecPool /\ \A w \in WorkerIds : WF_vars(PoolStep(w))

Queued(id) == \E w \in WorkerIds : \E k \in 1..Len(workers[w].queue) : workers[w].queue[k].id = id

WorkerIdle(w) == workers[w].pc = "blocked" /\ workers[w].queue = <<>>

\* C19: a task that waits in a queue while some worker is idle is
\* eventually executed, as long as the pool is not shut down.
C19_IdleWorkerSteals ==
    \A id \in 1..MaxTasks :
        (Queued(id) /\ \E w \in WorkerIds : WorkerIdle(w)) ~> (id \in hist.executed \/ pool.shutdown_)

\* C20: when the worker threads have exited, every task that submit
\* accepted before shutdown() was called has been executed.
C20_DrainedBeforeExit ==
    (\A w \in WorkerIds : workers[w].pc = "exited") => hist.accepted_before \subseteq hist.executed

-----------------------------------------------------------------------------
(* server/command_system.hpp : MinecraftServer::game_loop and tick. thr is  *)
(* the game loop thread with running_ and current_tick_; hist records, for  *)
(* the tick in progress, the subsystems called, the one that threw and      *)
(* whether LOG_ERROR ran, and the same for the ticks before it.             *)

MaxTicks == 3

Subsystems == <<"tick_players", "tick_entities", "tick_world", "update_performance_stats">>

\* What a call of a subsystem's handler can do.
HandlerOutcomes == {"returns", "throws"}

NoTick == [called |-> <<>>, threw |-> "none", logged |-> FALSE]

\* game_loop: while (running_.load()) ... tick()
GameLoopTick ==
    /\ thr.pc = "loop"
    /\ thr.running_
    /\ thr.current_tick_ < MaxTicks
    /\ thr' = [thr EXCEPT !.pc = "try", !.next = 1]
    /\ hist' = [hist EXCEPT !.tick = NoTick]
    /\ UNCHANGED <<conn, sock, pool, now, build, players, chunks, disk, workers, view>>

\* tick(): the next call inside the try block; a handler that throws
\* std::exception takes control to the catch clause.
TickCall ==
    /\ thr.pc = "try"
    /\ \E outcome \in HandlerOutcomes :
          /\ hist' = [hist EXCEPT !.tick.called = Append(@, Subsystems[thr.next]),
                                  !.tick.threw = IF outcome = "throws" THEN Subsystems[thr.next]
                                                 ELSE @]
          /\ thr' = IF outcome = "throws" THEN [thr EXCEPT !.pc = "catch"]
                    ELSE IF thr.next = Len(Subsystems) THEN [thr EXCEPT !.pc = "after_tick"]
                    ELSE [thr EXCEPT !.next = @ + 1]
    /\ UNCHANGED <<conn, sock, pool, now, build, players, chunks, disk, workers, view>>

\* tick(): catch (const std::exception& e) { LOG_ERROR(...); }
TickCatch ==
    /\ thr.pc = "catch"
    /\ hist' = [hist EXCEPT !.tick.logged = TRUE]
    /\ thr' = [thr EXCEPT !.pc = "after_tick"]
    /\ UNCHANGED <<conn, sock, pool, now, build, players, chunks, disk, workers, view>>

\* game_loop after tick(): the statistics, the sleep, current_tick_.fetch_add(1)
GameLoopNext ==
    /\ thr.pc = "after_tick"
    /\ thr' = [thr EXCEPT !.pc = "loop", !.current_tick_ = @ + 1]
    /\ hist' = [hist EXCEPT !.ticks = Append(@, hist.tick)]
    /\ UNCHANGED <<conn, sock, pool, now, build, players, chunks, disk, workers, view>>

\* stop(): running_ = false; the loop ends at its next test.
StopServer ==
    /\ thr.running_
    /\ thr' = [thr EXCEPT !.running_ = FALSE]
    /\ UNCHANGED <<conn, sock, pool, now, build, hist, players, chunks, disk, workers, view>>

InitTick ==
    /\ conn = <<>> /\ sock = <<>> /\ pool = <<>> /\ players = <<>>
    /\ chunks = <<>> /\ disk = <<>> /\ workers = <<>> /\ view = <<>>
    /\ now = 0
    /\ build = "command_system.hpp"
    /\ thr = [pc |-> "loop", next |-> 1, running_ |-> TRUE, current_tick_ |-> 0]
    /\ hist = [tick |-> NoTick, ticks |-> <<>>]

NextTick ==
    \/ GameLoopTick
    \/ TickCall
    \/ TickCatch
    \/ GameLoopNext
    \/ StopServer

SpecTick == InitTick /\ [][NextTick]_vars

TickHandlers == {"tick_players", "tick_entities", "tick_world"}

\* C21: in a tick in which a subsystem's handler threw, the error was
\* logged and every subsystem's handler was still called.
C21_TickContinues ==
    (thr.pc = "after_tick" /\ hist.tick.threw \in TickHandlers)
        => /\ hist.tick.logged
           /\ TickHandlers \subseteq {hist.tick.called[k] : k \in 1..Len(hist.tick.called)}

-----------------------------------------------------------------------------
(* Decoding one inbound frame body: process_packet inside handle_read's     *)
(* try block, on a connection in each phase. thr holds the case drawn and   *)
(* whether the body has been processed.                                     *)

Uuid == [i \in 1..16 |-> i]
Name == <<97, 98>>

\* A frame body (packet id, then fields) for a phase, with the decode
\* error the protocol finds in it.
DecodeCase(state, body, error) == [state |-> state, body |-> body, error |-> error]

DecodeCases ==
    { DecodeCase(LOGIN, <<0>> \o write_string(Name) \o Uuid, "none"),
      DecodeCase(LOGIN, <<0, 5>> \o Name, "underflow"),
      DecodeCase(LOGIN, <<0>> \o write_string(Name), "underflow"),
      DecodeCase(LOGIN, <<0>> \o write_string(Name) \o SubSeq(Uuid, 1, 7), "underflow"),
      DecodeCase(LOGIN, <<0, 128, 128, 128, 128, 128, 1>>, "overlong"),
      DecodeCase(LOGIN, <<0, 255, 255, 255, 255, 15>>, "bad length"),
      DecodeCase(LOGIN, <<0, 128, 128, 2>>, "bad length"),
      DecodeCase(LOGIN, <<>>, "underflow"),
      DecodeCase(LOGIN, <<128, 128, 128, 128, 128, 1>>, "overlong"),
      DecodeCase(HANDSHAKING, HandshakeBody(MINECRAFT_PROTOCOL_VERSION, 2), "none"),
      DecodeCase(HANDSHAKING, <<0, 251, 5>>, "underflow"),
      DecodeCase(HANDSHAKING, <<0, 251, 5, 9, 108>>, "underflow"),
      DecodeCase(HANDSHAKING, <<0, 251, 5, 128, 128, 2>>, "bad length"),
      DecodeCase(STATUS, PingBody, "none"),
      DecodeCase(STATUS, SubSeq(PingBody, 1, 4), "underflow"),
      DecodeCase(STATUS, <<>>, "underflow"),
      DecodeCase(PLAY, KeepAliveBody, "none"),
      DecodeCase(PLAY, <<20>> \o Zeros(24) \o <<1>>, "none"),
      DecodeCase(PLAY, <<20>> \o Zeros(17), "underflow") }

\* handle_read's try block for one frame body: process_packet, and close()
\* in the catch clause.
DecodeFrame ==
    /\ ~thr.done
    /\ LET r == process_packet(World, thr.case.body, now, build)
       IN  Commit(IF r.thrown THEN close(r.w) ELSE r.w)
    /\ thr' = [thr EXCEPT !.done = TRUE]
    /\ UNCHANGED <<now, build, players, chunks, disk, workers, view>>

InitDecode ==
    /\ chunks = <<>> /\ disk = <<>> /\ workers = <<>> /\ view = <<>> /\ players = <<>>
    /\ \E case \in DecodeCases :
          /\ thr = [case |-> case, done |-> FALSE]
          /\ conn = [InitConn EXCEPT !.state_ = case.state]
    /\ \E eager \in BOOLEAN : sock = InitSock(eager)
    /\ pool = {}
    /\ now \in 0..MaxTime
    /\ build \in Builds
    /\ hist = InitHist

NextDecode == DecodeFrame \/ SocketWriteDone \/ HandleWrite

SpecDecode == InitDecode /\ [][NextDecode]_vars

\* C23: a frame body with a decode error closes the connection and is not
\* handled: the phase stays, nothing is sent and no task is submitted.
C23_DecodeErrorCloses ==
    (thr.done /\ thr.case.error # "none")
        => /\ conn.closed_
           /\ conn.state_ = thr.case.state
           /\ hist.pushed = <<>>
           /\ pool = {}

-----------------------------------------------------------------------------
(* Chunk::set_block called any number of times on one chunk. chunks holds   *)
(* the chunk, hist what the calls so far have done.                         *)

MaxSets == 4

\* Arguments of the calls: a cell of the section, and x = -1, whose index
\* ChunkSection::set_block rejects; heights in three sections, below the
\* world (section 0, local y = -1) and above it (no section).
SetXs == (0 - 1)..(SectionCells - 1)
SetYs == {WORLD_MIN_Y - 1, WORLD_MIN_Y, WORLD_MIN_Y + 16, 64, WORLD_MAX_Y}
SetIds == {AIR, STONE, DIRT}

\* Chunk::set_block(x, y, 0, Block(id))
SetBlock ==
    /\ hist.calls < MaxSets
    /\ \E x \in SetXs, y \in SetYs, id \in SetIds :
          LET old_block == Chunk_get_block(chunks, x, y, 0)
              stored == SectionInRange(get_section_index(y))
                            /\ InSection(CellIndex(x, local_y(y, get_section_index(y)), 0))
          IN  /\ chunks' = Chunk_set_block(chunks, x, y, 0, id, now)
              /\ hist' = [calls |-> hist.calls + 1,
                          placed |-> hist.placed \/ (stored /\ old_block = AIR /\ id # AIR),
                          removed |-> hist.removed \/ (stored /\ old_block # AIR /\ id = AIR),
                          replaced |-> hist.replaced \/ (stored /\ old_block # AIR /\ id # AIR /\ id # old_block),
                          rejected |-> hist.rejected \/ ~stored]
    /\ UNCHANGED <<conn, sock, pool, now, build, thr, players, disk, workers, view>>

InitBlocks ==
    /\ conn = <<>> /\ sock = <<>> /\ pool = <<>> /\ thr = <<>> /\ players = <<>>
    /\ disk = <<>> /\ workers = <<>> /\ view = <<>>
    /\ build = "chunk.hpp"
    /\ now \in 0..1
    /\ chunks = NewChunk(<<0, 0>>, 0)
    /\ hist = [calls |-> 0, placed |-> FALSE, removed |-> FALSE, replaced |-> FALSE,
               rejected |-> FALSE]

NextBlocks == SetBlock

SpecBlocks == InitBlocks /\ [][NextBlocks]_vars

\* The number of cells of a section that hold a block other than air.
NonAir(s) == Cardinality({i \in 1..BLOCKS_PER_SECTION : s.blocks[i] # AIR})

\* C24: after any sequence of set_block calls on a chunk, every section's
\* block_count is the number of its non-air cells.
C24_BlockCountExact ==
    \A i \in 0..(SECTIONS_PER_CHUNK - 1) :
        chunks.sections_[i].present
            => chunks.sections_[i].block_count = NonAir(chunks.sections_[i])

C24_Witness ==
    /\ hist.calls = MaxSets
    /\ hist.placed /\ hist.removed /\ hist.replaced
    /\ \E i \in 0..(SECTIONS_PER_CHUNK - 1) :
          chunks.sections_[i].present /\ chunks.sections_[i].block_count = 1

-----------------------------------------------------------------------------
(* Buffer::write_varint followed by Buffer::read_varint on one Buffer. thr  *)
(* holds the value, the buffer's bytes and the result of the read.          *)

I32_MIN == (0 - 2147483647) - 1
I32_MAX == 2147483647

\* Values at the edges of every encoded length, of both signs.
VarIntValues ==
    {0, 1, 2, 127, 128, 255, 300, 16383, 16384, 25565, 2097151, 2097152,
     268435455, 268435456, 1073741824, I32_MAX - 1, I32_MAX}
    \cup {0 - 1, 0 - 2, 0 - 127, 0 - 128, 0 - 129, 0 - 300, 0 - 16384, 0 - 268435456,
          I32_MIN + 1, I32_MIN}

\* Bytes written to the buffer after the VarInt.
Tails == {<<>>, <<0>>, <<255, 1>>}

\* buffer.write_varint(value), then the bytes that follow it
WriteVarInt ==
    /\ thr.pc = "start"
    /\ thr' = [thr EXCEPT !.pc = "written", !.encoded = write_varint(thr.value),
                          !.data = write_varint(thr.value) \o thr.tail]
    /\ UNCHANGED <<conn, sock, pool, now, build, hist, players, chunks, disk, workers, view>>

\* buffer.read_varint() at read_pos_ = 0
ReadVarInt ==
    /\ thr.pc = "written"
    /\ thr' = [thr EXCEPT !.pc = "read", !.result = read_varint(thr.data, 0)]
    /\ UNCHANGED <<conn, sock, pool, now, build, hist, players, chunks, disk, workers, view>>

InitVarInt ==
    /\ conn = <<>> /\ sock = <<>> /\ pool = <<>> /\ hist = <<>> /\ players = <<>>
    /\ chunks = <<>> /\ disk = <<>> /\ workers = <<>> /\ view = <<>>
    /\ build = "buffer.hpp" /\ now = 0
    /\ \E value \in VarIntValues, tail \in Tails :
          thr = [pc |-> "start", value |-> value, tail |-> tail, encoded |-> <<>>,
                 data |-> <<>>, result |-> Got(0, 0)]

NextVarInt == WriteVarInt \/ ReadVarInt

SpecVarInt == InitVarInt /\ [][NextVarInt]_vars

\* C25: read_varint of the bytes write_varint(v) produced returns v and
\* stops at the end of those bytes; the encoding has 1 to 5 bytes, and 300
\* is encoded as AC 02.
C25_VarIntRoundTrip ==
    /\ thr.pc # "start"
          => /\ Len(thr.encoded) \in 1..5
             /\ (thr.value = 300 => thr.encoded = <<172, 2>>)
    /\ thr.pc = "read"
          => /\ thr.result.ok
             /\ thr.result.val = thr.value
             /\ thr.result.pos = Len(thr.encoded)

C25_Witness ==
    /\ thr.pc = "read"
    /\ thr.value = I32_MIN
    /\ thr.encoded = <<128, 128, 128, 128, 8>>
    /\ thr.tail = <<255, 1>>

-----------------------------------------------------------------------------
(* The keep-alive task of a connection that logs in while the clock        *)
(* (steady_clock, which counts from the machine's start) shows any value.  *)
(* thr holds the clock at the moment state_ became PLAY and, once the      *)
(* keep-alive task has closed the connection, the clock at that moment.    *)

\* No reading of the clock.
NoTime == (0 - 1) - MaxTime

\* The frames the client sends: LoginStart, and KeepAlive (id 0x12) once
\* the server has sent one.
LoginStartBody == <<0>> \o write_string(Name) \o Uuid

\* handle_read dispatches one frame of the client.
Dispatch ==
    /\ ~conn.closed_
    /\ \E body \in {LoginStartBody, KeepAliveBody} :
          /\ body = LoginStartBody => conn.state_ = LOGIN
          /\ body = KeepAliveBody =>
                /\ conn.state_ = PLAY
                /\ thr.answers < 1
                /\ \E i \in 1..Len(hist.pushed) : hist.pushed[i].kind = "KeepAlive"
          /\ LET r == process_packet(World, body, now, build)
             IN  Commit(IF r.thrown THEN close(r.w) ELSE r.w)
          /\ thr' = [thr EXCEPT
                        !.entered = IF conn.state_ # PLAY /\ conn'.state_ = PLAY
                                    THEN now ELSE @,
                        !.answers = IF body = KeepAliveBody THEN @ + 1 ELSE @]
    /\ UNCHANGED <<now, build, players, chunks, disk, workers, view>>

\* The keep-alive task wakes from its sleep and runs one round.
KeepAliveRound ==
    /\ \E task \in pool :
          /\ task.name = "keep_alive"
          /\ now >= task.wake
          /\ Commit(keep_alive_round(World, task, now))
          /\ thr' = [thr EXCEPT !.closed_at =
                        IF ~conn.closed_ /\ conn'.closed_ THEN now ELSE @]
    /\ UNCHANGED <<now, build, players, chunks, disk, workers, view>>

InitKeepAlive ==
    /\ chunks = <<>> /\ disk = <<>> /\ workers = <<>> /\ view = <<>> /\ players = <<>>
    /\ conn = [InitConn EXCEPT !.state_ = LOGIN]
    /\ \E eager \in BOOLEAN : sock = InitSock(eager)
    /\ pool = {}
    /\ now \in 0..(MaxTime - 1)
    /\ build \in Builds
    /\ hist = InitHist
    /\ thr = [entered |-> NoTime, closed_at |-> NoTime, answers |-> 0]

NextKeepAlive ==
    \/ Dispatch
    \/ InitializePlayState
    \/ KeepAliveRound
    \/ SocketWriteDone
    \/ HandleWrite
    \/ Tick

SpecKeepAlive == InitKeepAlive /\ [][NextKeepAlive]_vars

\* C26: when the keep-alive task closes the connection, more than 30
\* seconds have passed since the connection entered PLAY.
C26_NoEarlyTimeout ==
    thr.closed_at # NoTime
        => (thr.closed_at - thr.entered) * TickMs > KEEP_ALIVE_TIMEOUT

-----------------------------------------------------------------------------
(* Failure of a generation job (ChunkManager, specification SpecChunks)     *)

\* The generation job of a coordinate is queued in the pool or a worker is
\* inside it.
JobAlive(pos) ==
    \/ \E task \in pool : task.name = "generate" /\ task.pos = pos
    \/ \E w \in PoolWorkers :
          /\ thr[w].pc \in {"generate_locked", "blocked", "generate_insert"}
          /\ thr[w].pos = pos

\* C27: a coordinate whose generation job has ended with an error is not
\* pending: a coordinate is pending only while its job is queued or running.
C27_FailedJobClearsPending ==
    \A pos \in chunks.pending_chunks_ : JobAlive(pos)

-----------------------------------------------------------------------------
(* cleanup_old_chunks lock by lock: the positions are collected under       *)
(* chunk_mutex_, the lock is released, and unload_chunk takes it again for  *)
(* each position. workers holds each pool worker's to_unload vector and    *)
(* the map size its pass found, hist.evicted what every removal found.      *)

\* A thread calls get_chunk(pos).
GetChunk(t) ==
    /\ t \in ChunkCallers /\ AtPc(t, "idle") /\ hist.calls < MaxOps
    /\ \E pos \in ChunkCoords : chunks' = get_chunk(chunks, pos).store
    /\ Called
    /\ UNCHANGED <<conn, sock, pool, now, build, thr, players, disk, workers, view>>

\* cleanup_old_chunks, the block under chunk_mutex_: return when the map is
\* within max_loaded_chunks_, else collect the old chunks.
CleanupCollect(w) ==
    /\ AtPc(w, "cleanup_old_chunks")
    /\ workers' = [workers EXCEPT ![w] = [to_unload |-> to_unload(chunks),
                                          size |-> Cardinality(DOMAIN chunks.loaded_chunks_)]]
    /\ thr' = [thr EXCEPT ![w] = IF to_unload(chunks) = {} THEN ThreadIdle
                                 ELSE [@ EXCEPT !.pc = "cleanup_unload"]]
    /\ UNCHANGED <<conn, sock, pool, now, build, hist, players, chunks, disk, view>>

\* cleanup_old_chunks, one pass of the loop over to_unload: unload_chunk(pos).
CleanupUnload(w) ==
    /\ AtPc(w, "cleanup_unload")
    /\ \E pos \in workers[w].to_unload :
          LET r == unload_chunk(chunks, pool, pos)
              found == pos \in DOMAIN chunks.loaded_chunks_
          IN  /\ chunks' = r.store /\ pool' = r.pool
              /\ hist' = [hist EXCEPT !.evicted = @ \cup
                             IF found
                             THEN {[pos |-> pos,
                                    size |-> workers[w].size,
                                    age |-> now - chunks.heap[chunks.loaded_chunks_[pos]].last_access_]}
                             ELSE {}]
              /\ workers' = [workers EXCEPT ![w].to_unload = @ \ {pos}]
              /\ thr' = [thr EXCEPT ![w] = IF workers[w].to_unload = {pos} THEN ThreadIdle ELSE @]
    /\ UNCHANGED <<conn, sock, now, build, players, disk, view>>

InitEvict ==
    /\ conn = <<>> /\ sock = <<>> /\ players = <<>> /\ disk = <<>> /\ view = <<>>
    /\ pool = {}
    /\ now = 0
    /\ build \in {"chunk.hpp", "fixes_and_integration.hpp"}
    /\ thr = [t \in ChunkThreads |-> ThreadIdle]
    /\ workers = [w \in PoolWorkers |-> [to_unload |-> {}, size |-> 0]]
    /\ chunks = [heap |-> <<>>, loaded_chunks_ |-> NoMap, pending_chunks_ |-> {}]
    /\ hist = [calls |-> 0, nested |-> {}, unloaded_dirty |-> {}, dropped |-> {},
               persisted |-> NoMap, auto_set |-> NoMap, evicted |-> {}]

NextEvict ==
    \/ \E t \in ChunkCallers : LoadChunk(t)
    \/ \E t \in ChunkCallers : GetChunk(t)
    \/ \E w \in PoolWorkers : GenerateStart(w)
    \/ \E w \in PoolWorkers : GenerateSetBlock(w)
    \/ \E w \in PoolWorkers : GenerateInsert(w)
    \/ \E w \in PoolWorkers : CleanupCollect(w)
    \/ \E w \in PoolWorkers : CleanupUnload(w)
    \/ \E w \in PoolWorkers : UnloadTask(w)
    \/ TickChunks

SpecEvict == InitEvict /\ [][NextEvict]_vars

\* C28: every chunk an eviction pass removed from the loaded map was older
\* than chunk_timeout_ms at its removal, and the pass found more than
\* max_loaded chunks in the map.
C28_EvictsOnlyOld ==
    \A e \in hist.evicted :
        /\ e.size > MaxLoaded
        /\ e.age * chunk_timeout_ms_ > chunk_timeout_ms_

-----------------------------------------------------------------------------
(* Where save_chunk puts a payload (specification SpecPersist)              *)

\* The fields of a location entry.
SectorOffset(location) == (location \div 256) % 16777216
SectorCount(location) == location % 256

\* load_chunk's tests of a location entry that send it to `return nullptr`.
NotStored(location) ==
    location = 0 \/ SectorOffset(location) = 0 \/ SectorCount(location) = 0

\* The sectors of the region file the location entry names hold the bytes
\* save_chunk was given, after the header.
PayloadAt(d, location, chunk_data) ==
    /\ SectorOffset(location) >= HeaderSectors
    /\ SectorOffset(location) + SectorCount(location) <= Len(d.file)
    /\ \A k \in 1..SectorCount(location) :
          d.file[SectorOffset(location) + k] = DataSector(Sectors(chunk_data)[k])

\* C29: after save_chunk has saved the chunk, the header sectors of the
\* region file are header, the chunk's location entry is not 'not stored',
\* and it names sectors after the header that hold the payload.
C29_PayloadAfterHeader ==
    hist.saves > 0
        => /\ ~NotStored(disk.location)
           /\ Len(disk.file) >= HeaderSectors
           /\ \A k \in 1..HeaderSectors : disk.file[k] = HeaderSector(disk.location)
           /\ PayloadAt(disk, disk.location, hist.persisted)

-----------------------------------------------------------------------------
(* The player's chunk view while generation jobs complete: the tick thread  *)
(* calls update_loaded_chunks on every tick for as long as the server runs, *)
(* and the pool's workers finish the jobs load_chunk submitted.             *)

\* The coordinates the ChunkManager does not hold when the player joins.
UnloadedAtStart == {<<0, 0>>, <<3, 0>>}

\* game_loop's tick: tick_players calls update_loaded_chunks for the
\* player; hist.tick is the parity of current_tick_.
TickSend ==
    /\ LET updated == update_loaded_chunks(view, chunks, pool, build)
       IN  /\ view' = updated.player
           /\ chunks' = updated.store
           /\ pool' = updated.pool
           /\ conn' = updated.sent
    /\ hist' = [hist EXCEPT !.tick = 1 - @]
    /\ UNCHANGED <<sock, now, build, thr, players, disk, workers>>

\* A pool worker completes a generation job: the chunk is put in the
\* ChunkManager's map and the coordinate leaves the pending set.
GenerationDone ==
    /\ \E task \in pool :
          /\ task.name = "generate"
          /\ pool' = pool \ {task}
          /\ chunks' = [chunks EXCEPT !.loaded_chunks_ = @ \cup {task.pos},
                                      !.pending_chunks_ = @ \ {task.pos}]
    /\ UNCHANGED <<conn, sock, now, build, hist, thr, players, view, disk, workers>>

InitSend ==
    /\ sock = <<>> /\ thr = <<>> /\ players = <<>> /\ disk = <<>> /\ workers = <<>>
    /\ now = 0
    /\ build \in ViewBuilds
    /\ conn = <<>>
    /\ pool = {}
    /\ view = set_view_distance([location_ |-> [x |-> 0, z |-> 0],
                                 view_distance_ |-> DEFAULT_VIEW_DISTANCE,
                                 loaded_chunks_ |-> {}], MIN_VIEW_DISTANCE)
    /\ \E unloaded \in SUBSET UnloadedAtStart :
          chunks = [loaded_chunks_ |-> Range(Grid) \ unloaded, pending_chunks_ |-> {}]
    /\ hist = [ops |-> 0, updates |-> 0, moved |-> NoMove, tick |-> 0]

NextSend ==
    \/ PlayerPosition
    \/ TickSend
    \/ GenerationDone

SpecSend == InitSend /\ [][NextSend]_vars

\* A step of the tick thread: current_tick_ has advanced.
Ticked == hist' = [hist EXCEPT !.tick = 1 - @]

\* The game loop keeps ticking and the pool keeps completing jobs; the
\* client is under no obligation to move.
SpecSendLive == SpecSend /\ WF_hist(Ticked) /\ WF_vars(GenerationDone)

\* The last handler gave a ChunkData packet of the coordinate to send_packet.
ChunkDataSent(c) == \E k \in 1..Len(conn) : conn[k] = ChunkDataPacket(c)

\* C30: a coordinate that is in the player's view while its chunk is not
\* loaded gets its ChunkData sent later, unless it leaves the view.
C30_ChunkDataAfterLoad ==
    \A c \in UnloadedAtStart :
        (c \in view.loaded_chunks_ /\ c \notin chunks.loaded_chunks_)
            ~> (ChunkDataSent(c) \/ c \notin view.loaded_chunks_)

-----------------------------------------------------------------------------
(* ThreadPool::shutdown against a worker entering its wait.                 *)

\* The thread inside shutdown() keeps running as well as the workers.
SpecPoolShutdown ==
    SpecPoolLive /\ WF_vars(ShutdownStore) /\ WF_vars(ShutdownJoin)

LongTaskRunning == \E w \in WorkerIds : workers[w].pc = "run" /\ workers[w].task.long

\* C32: once shutdown() has set every worker's flag and waits in join, it
\* returns, unless a task that never terminates is running.
C32_ShutdownReturns == (thr.pc = "join") ~> (thr.pc = "done" \/ LongTaskRunning)

-----------------------------------------------------------------------------
(* NetworkServer: pool is the server object (running_, the io_context's     *)
(* stopped flag and its pending async_accept, connections_, the counters),  *)
(* thr the I/O threads the constructor spawns, conn the TCP connections     *)
(* with their monitor tasks, workers the janitor task, hist the fetch_sub   *)
(* calls made for each connection.                                          *)
(* A u32 counter is held as the 32-bit integer with the same bits, so the   *)
(* values from 2^31 up (a counter wrapped below zero) show as negatives.    *)

MaxConns == 2
IoThreadCount == 2

ConnIds == 1..MaxConns
IoThreadIds == 1..IoThreadCount

\* std::atomic<u32>::fetch_add(1) and fetch_sub(1), the new value
u32_add1(v) == IF v = I32_MAX THEN I32_MIN ELSE v + 1
u32_sub1(v) == IF v = I32_MIN THEN I32_MAX ELSE v - 1

\* A thread of io_threads_ reaches io_context_.run(): with no outstanding
\* work run() stops the io_context and returns; on a stopped io_context it
\* returns at once; otherwise the thread stays in run().
IoRun(t) ==
    /\ thr[t] = "spawned"
    /\ IF pool.stopped \/ ~pool.accept_pending
       THEN /\ thr' = [thr EXCEPT ![t] = "returned"]
            /\ pool' = [pool EXCEPT !.stopped = TRUE]
       ELSE /\ thr' = [thr EXCEPT ![t] = "running"]
            /\ UNCHANGED pool
    /\ UNCHANGED <<conn, sock, now, build, hist, players, chunks, disk, workers, view>>

\* start(): running_.exchange(true), start_accept() posts the async_accept,
\* the janitor is submitted to the pool.
ServerStart ==
    /\ ~pool.started
    /\ pool' = [pool EXCEPT !.started = TRUE, !.running_ = TRUE, !.accept_pending = TRUE]
    /\ workers' = [workers EXCEPT !.pc = "queued"]
    /\ UNCHANGED <<conn, sock, now, build, hist, thr, players, chunks, disk, view>>

\* A client connects to the listening port.
Incoming(c) ==
    /\ conn[c].state = "none"
    /\ conn' = [conn EXCEPT ![c].state = "incoming"]
    /\ UNCHANGED <<sock, pool, now, build, hist, thr, players, chunks, disk, workers, view>>

\* The completion handler of async_accept, run by a thread inside
\* io_context_.run(): handle_new_connection (insert, both fetch_add,
\* connection->start(), submit of monitor_connection), then start_accept()
\* again while running_.
AcceptHandler(t, c) ==
    /\ thr[t] = "running" /\ ~pool.stopped /\ pool.accept_pending
    /\ conn[c].state = "incoming"
    /\ conn' = [conn EXCEPT ![c].state = "open", ![c].monitor = "queued"]
    /\ pool' = [pool EXCEPT !.connections_ = @ \cup {c},
                            !.total_connections_ = u32_add1(@),
                            !.active_connections_ = u32_add1(@),
                            !.accept_pending = pool.running_]
    /\ UNCHANGED <<sock, now, build, hist, thr, players, chunks, disk, workers, view>>

\* The connection closes (the peer disconnects, a read or write fails).
ConnectionCloses(c) ==
    /\ conn[c].state = "open" /\ ~conn[c].closed_
    /\ conn' = [conn EXCEPT ![c].closed_ = TRUE]
    /\ UNCHANGED <<sock, pool, now, build, hist, thr, players, chunks, disk, workers, view>>

\* A pool worker takes the monitor task.
MonitorStart(c) ==
    /\ conn[c].monitor = "queued"
    /\ conn' = [conn EXCEPT ![c].monitor = "loop"]
    /\ UNCHANGED <<sock, pool, now, build, hist, thr, players, chunks, disk, workers, view>>

\* monitor_connection: the loop ends and connections_.erase(connection)
\* runs under connections_mutex_.
MonitorErase(c) ==
    /\ conn[c].monitor = "loop"
    /\ conn[c].closed_ \/ ~pool.running_
    /\ conn' = [conn EXCEPT ![c].monitor = "sub"]
    /\ pool' = [pool EXCEPT !.connections_ = @ \ {c}]
    /\ UNCHANGED <<sock, now, build, hist, thr, players, chunks, disk, workers, view>>

\* monitor_connection: active_connections_.fetch_sub(1)
MonitorSub(c) ==
    /\ conn[c].monitor = "sub"
    /\ conn' = [conn EXCEPT ![c].monitor = "done"]
    /\ pool' = [pool EXCEPT !.active_connections_ = u32_sub1(@)]
    /\ hist' = [hist EXCEPT !.subs[c] = @ + 1]
    /\ UNCHANGED <<sock, now, build, thr, players, chunks, disk, workers, view>>

\* A pool worker takes the janitor task.
JanitorStart ==
    /\ workers.pc = "queued"
    /\ workers' = [workers EXCEPT !.pc = "loop"]
    /\ UNCHANGED <<conn, sock, pool, now, build, hist, thr, players, chunks, disk, view>>

RECURSIVE u32_sub(_, _)
u32_sub(v, n) == IF n = 0 THEN v ELSE u32_sub(u32_sub1(v), n - 1)

\* cleanup_connections, one round of the loop: the test of running_, the
\* sleep, then under connections_mutex_ every closed connection is erased
\* with a fetch_sub each.
JanitorPass ==
    /\ workers.pc = "loop"
    /\ IF pool.running_
       THEN LET to_remove == {c \in pool.connections_ : conn[c].closed_}
            IN  /\ to_remove # {}
                /\ pool' = [pool EXCEPT !.connections_ = @ \ to_remove,
                                        !.active_connections_ = u32_sub(@, Cardinality(to_remove))]
                /\ hist' = [hist EXCEPT !.subs = [c \in ConnIds |->
                                           IF c \in to_remove THEN @[c] + 1 ELSE @[c]]]
                /\ UNCHANGED workers
       ELSE /\ workers' = [workers EXCEPT !.pc = "done"]
            /\ UNCHANGED <<pool, hist>>
    /\ UNCHANGED <<conn, sock, now, build, thr, players, chunks, disk, view>>

\* stop(): running_.exchange(false), io_context_.stop(), every connection
\* of the set closed and the set cleared, the I/O threads joined.
ServerStop ==
    /\ pool.running_
    /\ pool' = [pool EXCEPT !.running_ = FALSE, !.stopped = TRUE, !.connections_ = {}]
    /\ conn' = [c \in ConnIds |->
                   IF c \in pool.connections_ THEN [conn[c] EXCEPT !.closed_ = TRUE] ELSE conn[c]]
    /\ thr' = [t \in IoThreadIds |-> "returned"]
    /\ UNCHANGED <<sock, now, build, hist, players, chunks, disk, workers, view>>

InitServer ==
    /\ sock = <<>> /\ players = <<>> /\ chunks = <<>> /\ disk = <<>> /\ view = <<>>
    /\ now = 0
    /\ build = "network_server"
    /\ pool = [started |-> FALSE, running_ |-> FALSE, stopped |-> FALSE, accept_pending |-> FALSE,
               connections_ |-> {}, total_connections_ |-> 0, active_connections_ |-> 0]
    /\ thr = [t \in IoThreadIds |-> "spawned"]
    /\ conn = [c \in ConnIds |-> [state |-> "none", closed_ |-> FALSE, monitor |-> "none"]]
    /\ workers = [pc |-> "none"]
    /\ hist = [subs |-> [c \in ConnIds |-> 0]]

NextServer ==
    \/ \E t \in IoThreadIds : IoRun(t)
    \/ ServerStart
    \/ \E c \in ConnIds : Incoming(c)
    \/ \E t \in IoThreadIds, c \in ConnIds : AcceptHandler(t, c)
    \/ \E c \in ConnIds : ConnectionCloses(c)
    \/ \E c \in ConnIds : MonitorStart(c)
    \/ \E c \in ConnIds : MonitorErase(c)
    \/ \E c \in ConnIds : MonitorSub(c)
    \/ JanitorStart
    \/ JanitorPass
    \/ ServerStop

SpecServer == InitServer /\ [][NextServer]_vars

\* No monitor task is between its erase and its fetch_sub.
NoMonitorMidway == \A c \in ConnIds : conn[c].monitor # "sub"

\* C31: fetch_sub runs at most once for a connection, the counter never
\* wraps below zero, and while the server runs it equals the size of the
\* connection set (outside a monitor's erase-to-fetch_sub window).
C31_ActiveCountExact ==
    /\ \A c \in ConnIds : hist.subs[c] <= 1
    /\ pool.active_connections_ >= 0
    /\ (pool.running_ /\ NoMonitorMidway)
           => pool.active_connections_ = Cardinality(pool.connections_)

\* The I/O threads and the accept handler keep running.
SpecServerLive ==
    /\ SpecServer
    /\ \A t \in IoThreadIds : WF_vars(IoRun(t))
    /\ \A c \in ConnIds : WF_vars(\E t \in IoThreadIds : AcceptHandler(t, c))

\* C33: while the server runs, a connection that has arrived at the
\* listening port is eventually accepted and inserted into the set.
C33_EventuallyAccepted ==
    \A c \in ConnIds :
        (conn[c].state = "incoming" /\ pool.running_)
            ~> (conn[c].state = "open" \/ ~pool.running_)

-----------------------------------------------------------------------------
(* PlayerManager as a registry: create_player and remove_player called one  *)
(* after the other. conn holds the connections the sessions point to,       *)
(* players the three maps, hist the number of calls made.                   *)

RegistryMaxPlayers == 3    \* g_config.get_max_players() of this server
MaxRegistryCalls == 4

RegistryProfiles ==
    {[uuid |-> "u1", username |-> "Ann"], [uuid |-> "u2", username |-> "Ann"],
     [uuid |-> "u3", username |-> "Bob"]}

\* PlayerManager::create_player of complete_integration.cpp, the whole call:
\* nullptr when the server is full or the UUID is present, otherwise a new
\* entity id and the session stored in the three maps.
create_player(pm, connection, profile, max_players) ==
    IF get_online_count >= max_players \/ profile.uuid \in DOMAIN pm.players_by_uuid_
    THEN pm
    ELSE LET entity_id == pm.next_entity_id_
             player == [connection_ |-> connection, profile_ |-> profile,
                        entity_id_ |-> entity_id]
         IN  [pm EXCEPT !.next_entity_id_ = @ + 1,
                        !.players_by_uuid_ = Put(@, profile.uuid, player),
                        !.players_by_name_ = Put(@, profile.username, player),
                        !.players_by_entity_id_ = Put(@, entity_id, player)]

CreatePlayer ==
    /\ hist.calls < MaxRegistryCalls
    /\ \E c \in Conns, profile \in RegistryProfiles :
          players' = create_player(players, c, profile, RegistryMaxPlayers)
    /\ hist' = [hist EXCEPT !.calls = @ + 1]
    /\ UNCHANGED <<conn, sock, pool, now, build, thr, chunks, disk, workers, view>>

RemovePlayer ==
    /\ hist.calls < MaxRegistryCalls
    /\ \E profile \in RegistryProfiles : players' = remove_player(players, profile.uuid)
    /\ hist' = [hist EXCEPT !.calls = @ + 1]
    /\ UNCHANGED <<conn, sock, pool, now, build, thr, chunks, disk, workers, view>>

InitRegistry ==
    /\ sock = <<>> /\ pool = <<>> /\ thr = <<>>
    /\ chunks = <<>> /\ disk = <<>> /\ workers = <<>> /\ view = <<>>
    /\ conn = [c \in Conns |-> [closed_ |-> FALSE]]
    /\ now = 0
    /\ build = "complete_integration.cpp"
    /\ hist = [calls |-> 0]
    /\ players = [players_by_uuid_ |-> NoMap, players_by_name_ |-> NoMap,
                  players_by_entity_id_ |-> NoMap, next_entity_id_ |-> 1]

NextRegistry == CreatePlayer \/ RemovePlayer

SpecRegistry == InitRegistry /\ [][NextRegistry]_vars

\* The sessions a map holds.
Sessions(map) == {map[k] : k \in DOMAIN map}

\* C34: the by-UUID, by-username and by-entity-id maps hold the same
\* sessions.
C34_MapsAgree ==
    /\ Sessions(players.players_by_uuid_) = Sessions(players.players_by_name_)
    /\ Sessions(players.players_by_uuid_) = Sessions(players.players_by_entity_id_)

-----------------------------------------------------------------------------
(* Living entities: players holds EntityManager::entities_ with each        *)
(* entity's health_, max_health_, hurt_time_ and death_time_; hist counts,  *)
(* for each entity, the ticks since its health last dropped to 0 and keeps  *)
(* what tick_all_entities removed. Healths and amounts are whole numbers;   *)
(* the position and velocity that Entity::tick moves are left out.          *)

MaxHealth == 2         \* max_health of the entities of this world
HURT_TIME == 10
DEATH_TICKS == 20

EntityIds == {10000}
Amounts == {0, 1, 2}

\* LivingEntity::is_dead
is_dead(e) == e.health_ <= 0

\* LivingEntity::should_remove
should_remove(e) == is_dead(e) /\ e.death_time_ >= DEATH_TICKS

\* LivingEntity::damage
damage(e, amount) ==
    IF amount > 0
    THEN [e EXCEPT !.health_ = IF @ - amount > 0 THEN @ - amount ELSE 0, !.hurt_time_ = HURT_TIME]
    ELSE e

\* LivingEntity::heal
heal(e, amount) ==
    IF amount > 0
    THEN [e EXCEPT !.health_ = IF @ + amount < e.max_health_ THEN @ + amount ELSE e.max_health_]
    ELSE e

\* LivingEntity::tick
LivingEntity_tick(e) ==
    LET hurt == IF e.hurt_time_ > 0 THEN [e EXCEPT !.hurt_time_ = @ - 1] ELSE e
    IN  IF is_dead(hurt) /\ hurt.death_time_ < DEATH_TICKS
        THEN [hurt EXCEPT !.death_time_ = @ + 1]
        ELSE hurt

Damage(id) ==
    /\ id \in DOMAIN players.entities_
    /\ \E amount \in Amounts :
          LET before == players.entities_[id]
              after == damage(before, amount)
          IN  /\ players' = [players EXCEPT !.entities_[id] = after]
              /\ hist' = [hist EXCEPT !.since_death[id] =
                             IF ~is_dead(before) /\ is_dead(after) THEN 0 ELSE @]
    /\ UNCHANGED <<conn, sock, pool, now, build, thr, chunks, disk, workers, view>>

Heal(id) ==
    /\ id \in DOMAIN players.entities_
    /\ \E amount \in Amounts :
          players' = [players EXCEPT !.entities_[id] = heal(@, amount)]
    /\ UNCHANGED <<conn, sock, pool, now, build, hist, thr, chunks, disk, workers, view>>

\* EntityManager::tick_all_entities: every entity is ticked, and the ones
\* whose should_remove() holds after their tick are removed.
TickAll ==
    LET ticked == [id \in DOMAIN players.entities_ |-> LivingEntity_tick(players.entities_[id])]
        entities_to_remove == {id \in DOMAIN ticked : should_remove(ticked[id])}
        since == [id \in EntityIds |->
                     IF id \in DOMAIN ticked /\ is_dead(ticked[id]) /\ hist.since_death[id] < DEATH_TICKS
                     THEN hist.since_death[id] + 1 ELSE hist.since_death[id]]
    IN  /\ players.entities_ # NoMap
        /\ players' = [players EXCEPT !.entities_ =
                          [id \in (DOMAIN ticked) \ entities_to_remove |-> ticked[id]]]
        /\ hist' = [hist EXCEPT
               !.since_death = since,
               !.removed = @ \cup {[id |-> id, health_ |-> ticked[id].health_,
                                    since_death |-> since[id]] : id \in entities_to_remove}]
        /\ UNCHANGED <<conn, sock, pool, now, build, thr, chunks, disk, workers, view>>

InitEntity ==
    /\ conn = <<>> /\ sock = <<>> /\ pool = <<>> /\ thr = <<>>
    /\ chunks = <<>> /\ disk = <<>> /\ workers = <<>> /\ view = <<>>
    /\ now = 0
    /\ build = "entity.hpp"
    /\ players = [entities_ |-> [id \in EntityIds |->
                     [health_ |-> MaxHealth, max_health_ |-> MaxHealth,
                      hurt_time_ |-> 0, death_time_ |-> 0]]]
    /\ hist = [since_death |-> [id \in EntityIds |-> 0], removed |-> {}]

NextEntity ==
    \/ \E id \in EntityIds : Damage(id)
    \/ \E id \in EntityIds : Heal(id)
    \/ TickAll

SpecEntity == InitEntity /\ [][NextEntity]_vars

\* C35: an entity that tick_all_entities removed had health 0 and had been
\* ticked 20 times since its health last dropped to 0.
C35_RemovedAfterDeathTicks ==
    \A e \in hist.removed : e.health_ = 0 /\ e.since_death >= DEATH_TICKS

-----------------------------------------------------------------------------
(* Joining against PLAY packets: the connection is in PLAY from the         *)
(* LoginStart on, so the I/O thread dispatches the client's PLAY packets    *)
(* while initialize_play_state runs on a pool worker. view holds, for the   *)
(* Player object made for each connection, the chunk x it stands in.        *)

MaxSent == 3
SpawnChunkX == 0
PacketChunkXs == {0, 1}

\* Connection::handle_play_packet on a PlayerPosition packet: nothing
\* without a player for the profile's UUID; with a move into another chunk
\* UpdateViewPosition is sent (the ChunkData and UnloadChunk packets of
\* send_chunk_updates follow it and are left out).
HandlePlayPosition(c) ==
    /\ conn[c].state_ = PLAY
    /\ ~conn[c].closed_
    /\ Len(conn[c].sent) < MaxSent
    /\ get_player(conn[c].profile_.uuid)
    /\ \E new_chunk \in PacketChunkXs :
          LET player == players.players_by_uuid_[conn[c].profile_.uuid]
              old_chunk == view[player.connection_]
          IN  /\ view' = [view EXCEPT ![player.connection_] = new_chunk]
              /\ conn' = IF old_chunk # new_chunk THEN Sent(c, "UpdateViewPosition") ELSE conn
    /\ UNCHANGED <<sock, pool, now, build, hist, thr, players, chunks, disk, workers>>

InitJoin ==
    /\ chunks = <<>> /\ disk = <<>> /\ workers = <<>>
    /\ conn = [c \in Conns |->
                  [state_ |-> LOGIN, closed_ |-> FALSE, profile_ |-> NoProfile,
                   entity_id_ |-> 0, sent |-> <<>>]]
    /\ sock = InitSock(TRUE)
    /\ pool = {}
    /\ now = 0
    /\ build = "complete_integration.cpp"
    /\ hist = InitHist
    /\ thr = [c \in Conns |-> [pc |-> "none", entity_id |-> 0]]
    /\ players = [players_by_uuid_ |-> NoMap, players_by_name_ |-> NoMap,
                  players_by_entity_id_ |-> NoMap, next_entity_id_ |-> 1]
    /\ view = [c \in Conns |-> SpawnChunkX]

NextJoin ==
    \/ \E c \in Conns : LoginStart(c)
    \/ \E c \in Conns : InitializeEntityId(c)
    \/ \E c \in Conns : CreatePlayerFull(c)
    \/ \E c \in Conns : CreatePlayerDuplicate(c)
    \/ \E c \in Conns : CreatePlayerMake(c)
    \/ \E c \in Conns : CreatePlayerInsert(c)
    \/ \E c \in Conns : InitializeNoPlayer(c)
    \/ \E c \in Conns : InitializeJoin(c)
    \/ \E c \in Conns : HandlePlayPosition(c)
    \/ \E c \in Conns : Disconnect(c)

SpecJoin == InitJoin /\ [][NextJoin]_vars

\* C36: on every connection a PLAY packet other than JoinGame is enqueued
\* only after JoinGame.
C36_JoinGameFirst ==
    \A c \in Conns : \A i \in 1..Len(conn[c].sent) :
        conn[c].sent[i] = "UpdateViewPosition"
            => \E j \in 1..(i - 1) : conn[c].sent[j] = "JoinGame"

-----------------------------------------------------------------------------
(* The pool under per-connection loops. The long-running tasks of the pool  *)
(* model are the tasks that stay on a worker while a connection is open:    *)
(* monitor_connection, the keep-alive loop and cleanup_connections; the     *)
(* others return, as initialize_play_state does.                            *)

QueuedShort(id) ==
    \E w \in WorkerIds : \E k \in 1..Len(workers[w].queue) :
        workers[w].queue[k].id = id /\ ~workers[w].queue[k].long

EveryWorkerInLoop == \A w \in WorkerIds : workers[w].pc = "run" /\ workers[w].task.long

\* C37: a task that returns (initialize_play_state) and waits in a queue
\* is eventually run, also when every worker is inside the loop of an open
\* connection.
C37_JoinTaskRuns ==
    \A id \in 1..MaxTasks :
        (QueuedShort(id) /\ EveryWorkerInLoop) ~> (id \in hist.executed \/ pool.shutdown_)

-----------------------------------------------------------------------------
(* The entity id of JoinGame: join_packet->entity_id = entity_id_.load(),   *)
(* so a connection that was sent JoinGame was sent conn[c].entity_id_.      *)

\* The entity ids under which the registry holds the session of connection c.
RegisteredIds(c) ==
    {id \in DOMAIN players.players_by_entity_id_ :
        players.players_by_entity_id_[id].connection_ = c}

\* C38: the entity id sent in a connection's JoinGame is the id under which
\* its session is stored in the by-entity-id map.
C38_JoinGameEntityId ==
    \A c \in Conns : Joined(c) => \A id \in RegisteredIds(c) : id = conn[c].entity_id_

-----------------------------------------------------------------------------
(* Auto-save: the auto-save thread calls perform_auto_save, which calls     *)
(* WorldPersistence::save_all_chunks. hist.auto counts the auto-saves and   *)
(* keeps the number of block and light writes made before the latest one.   *)

MaxAutoSaves == 2

\* save_all_chunks: for each open region file that is dirty the header is
\* written and the file's dirty flag cleared; save_mutex_ is not taken and
\* no chunk is looked at.
save_all_chunks(d) ==
    IF d.opened /\ d.dirty THEN [save_region_header(d) EXCEPT !.dirty = FALSE] ELSE d

\* MinecraftServer::perform_auto_save of minecraft_server_complete.cpp
PerformAutoSave ==
    /\ hist.auto.count < MaxAutoSaves
    /\ disk' = save_all_chunks(disk)
    /\ hist' = [hist EXCEPT !.auto = [count |-> @.count + 1, writes |-> hist.writes]]
    /\ UNCHANGED <<conn, sock, pool, now, build, thr, players, chunks, workers, view>>

InitAutoSave ==
    /\ conn = <<>> /\ sock = <<>> /\ players = <<>> /\ workers = <<>> /\ view = <<>>
    /\ pool = {}
    /\ now = 0
    /\ build = "minecraft_server_complete.cpp"
    /\ thr = SaverIdle
    /\ chunks = [heap |-> <<generate_flat_world(NewChunk(SavedPos, 0), 0)>>,
                 loaded_chunks_ |-> Put(NoMap, SavedPos, SavedChunk),
                 pending_chunks_ |-> {}]
    /\ \E file \in RegionFiles :
          disk = [file |-> file, opened |-> FALSE, good |-> TRUE, location |-> 0,
                  dirty |-> FALSE]
    /\ hist = [saves |-> 0, writes |-> 0, loads |-> 0, persisted |-> <<>>,
               snapshot |-> NewChunk(SavedPos, 0),
               loaded |-> [after_save |-> FALSE, ok |-> FALSE,
                           chunk |-> NewChunk(SavedPos, 0), saved |-> NewChunk(SavedPos, 0)],
               auto |-> [count |-> 0, writes |-> 0]]

NextAutoSave ==
    \/ PerformAutoSave
    \/ SaveCheck
    \/ SaveGetSections
    \/ SaveSerialize
    \/ SaveWrite
    \/ WriteBlock
    \/ WriteBlockLight
    \/ WriteSkyLight
    \/ PersistLoad

SpecAutoSave == InitAutoSave /\ [][NextAutoSave]_vars

\* C39: after an auto-save with no block or light write since, the loaded
\* chunk is not dirty and its contents are the bytes last written for it.
C39_AutoSaveCleans ==
    (hist.auto.count > 0 /\ hist.auto.writes = hist.writes)
        => /\ ~chunks.heap[SavedChunk].dirty_
           /\ hist.persisted = serialize_chunk(chunks.heap[SavedChunk],
                                               get_sections(chunks.heap[SavedChunk]))

-----------------------------------------------------------------------------
(* The pending set against the loaded map.                                  *)

\* The generation jobs of a coordinate that have not yet stored their
\* chunk: the task waiting in the pool and the workers inside one.
JobsInFlight(pos) ==
    Cardinality({task \in pool : task.name = "generate" /\ task.pos = pos})
        + Cardinality({w \in PoolWorkers :
                          /\ thr[w].pc \in {"generate_locked", "blocked", "generate_insert"}
                          /\ thr[w].pos = pos})

\* The chunk store under load_chunk, unload_chunk and the generation jobs
\* alone.
NextStore ==
    \/ \E t \in ChunkCallers : LoadChunk(t)
    \/ \E t \in ChunkCallers : UnloadChunk(t)
    \/ \E w \in PoolWorkers : GenerateStart(w)
    \/ \E w \in PoolWorkers : GenerateSetBlock(w)
    \/ \E w \in PoolWorkers : GenerateInsert(w)
    \/ \E w \in PoolWorkers : CleanupOldChunks(w)
    \/ \E w \in PoolWorkers : UnloadTask(w)
    \/ TickChunks

SpecStore == InitChunks /\ [][NextStore]_vars

\* C40: no coordinate is both pending and loaded, and no coordinate has
\* more than one generation job in flight.
C40_PendingLoadedDisjoint ==
    /\ chunks.pending_chunks_ \cap DOMAIN chunks.loaded_chunks_ = {}
    /\ \A pos \in ChunkCoords : JobsInFlight(pos) <= 1

\* A coordinate that was generated and unloaded is pending again, and its
\* second job has generated its chunk and is about to store it.
C40_Witness ==
    \E pos \in chunks.pending_chunks_ :
        /\ \E w \in PoolWorkers : thr[w].pc = "generate_insert" /\ thr[w].pos = pos
        /\ Cardinality({k \in 1..Len(chunks.heap) : chunks.heap[k].position_ = pos}) >= 2

====
